---- MODULE Spec2Model ----
(***************************************************************************)
(* A model of lightrag/kg/mongo_impl.py: the reference-counted shared      *)
(* database handle (ClientManager), the stores' initialize/finalize, and   *)
(* the graph store (MongoGraphStorage) over a collection of node documents *)
(* with embedded edge lists.                                               *)
(*                                                                         *)
(* Scheduling is asyncio's: one coroutine runs at a time and gives up the  *)
(* processor only at an await that really suspends (a database call, or an *)
(* asyncio.Lock that is held).  `running` is the coroutine that has the    *)
(* processor, None while the event loop is choosing the next one.          *)
(***************************************************************************)
EXTENDS Integers, Sequences, FiniteSets, TLC

VARIABLES
    instDb,      \* ClientManager._instances["db"]: a handle, or NoHandle
    refCount,    \* ClientManager._instances["ref_count"]
    lock,        \* ClientManager._lock: the task holding it, or None
    nextHandle,  \* number of handles opened so far; handle k is the k-th opened
    storeDb,     \* store -> its db field
    storeData,   \* store -> its _data / collection field (a collection name or None)
    collNames,   \* names of the collections that exist in the database
    searchIndexes, \* names of the collections that have the index vector_knn_index
    pc,          \* task -> position in the coroutine it runs
    call,        \* task -> the call it runs (operation and arguments)
    local,       \* task -> local variables of the call
    running,     \* the task that has the processor, or None
    coll,        \* the graph collection: node id -> document, for the ids stored
    docs,        \* key-value and doc-status collections: name -> (id -> document)
    vdb          \* the vector collection: id -> document, for the ids stored

vars == <<instDb, refCount, lock, nextHandle, storeDb, storeData, collNames,
          searchIndexes, pc, call, local, running, coll, docs, vdb>>

cmVars == <<instDb, refCount, lock, nextHandle>>
storeVars == <<storeDb, storeData, collNames, searchIndexes>>
taskVars == <<pc, call, local, running>>
dataVars == <<coll, docs, vdb>>
kvVars == <<docs, vdb>>

None == "None"
NoHandle == 0

\* ---------------------------------------------------------------- bounds
MaxHandles == 3
MaxRefs == 3
MaxEdges == 2
MaxRaceEdges == 3
MaxPairs == 2
MaxAllEdges == 1
MaxQueryEdges == 2
MaxDepth == 2

Tasks == {"t1", "t2", "t3"}

\* Store instances: two key-value stores on one namespace, a key-value store
\* on the LLM response cache, a doc-status store, the graph store and a vector
\* store.
Stores == {"kv", "kv2", "cache", "docstatus", "graph", "vector"}

\* The instances whose initialize / finalize calls are explored.
LifeStores == {"kv", "kv2", "graph", "vector"}

\* self._collection_name = self.namespace (lines 84, 345, 960).
CollectionName(s) ==
    CASE s = "graph" -> "chunk_entity_relation"
      [] s = "vector" -> "entities"
      [] s = "cache" -> "llm_response_cache"
      [] s = "docstatus" -> "doc_status"
      [] OTHER -> "full_docs"

NoCall == [op |-> "none"]
\* h: the handle a manager call works on; applied: the writes of a gather that
\* the database has applied (or the ids a find has returned); order: the
\* embedding calls of a gather in the order they completed; result: how the
\* call ended; pre: the collection as it was when the call started.
NoResult == [kind |-> "none", value |-> None]
NoLocal == [h |-> NoHandle, applied |-> {}, order |-> <<>>, result |-> NoResult, pre |-> <<>>]

\* How a call ends: it returns a value or an exception leaves it.
Returns(v) == [kind |-> "returned", value |-> v]
Raises == [kind |-> "raised", value |-> "PyMongoError"]

\* The stores with the key-value interface and their collections: an
\* ordinary namespace, the LLM response cache and the doc-status namespace.
KVStores == {"kv", "cache", "docstatus"}
KVNames == {CollectionName(s) : s \in KVStores}

Idle(t) == pc[t] = "idle"

\* The coroutine returns (or raises): its frame is gone.
Return(t) ==
    /\ pc' = [pc EXCEPT ![t] = "idle"]
    /\ call' = [call EXCEPT ![t] = NoCall]
    /\ local' = [local EXCEPT ![t] = NoLocal]
    /\ running' = None

\* The task may take a step: it has the processor, or nobody has and the
\* event loop resumes (or starts) it.
CanRun(t) == running \in {t, None}

\* ------------------------------------------------------- ClientManager
\* An acquire that opens a handle on every call.
GetClientBodyAlwaysOpens(db, rc, fresh) ==
    [db |-> fresh, ref_count |-> (IF db = NoHandle THEN 0 ELSE rc) + 1,
     ret |-> fresh, opened |-> TRUE]

\* get_client, lines 47-65, on the pair <<db, ref_count>>: opens a handle when
\* none is stored, resets the count, increments it, returns the stored handle.
GetClientBody(db, rc, fresh) ==
    LET db1 == IF db = NoHandle THEN fresh ELSE db
        rc0 == IF db = NoHandle THEN 0 ELSE rc
    IN  [db |-> db1, ref_count |-> rc0 + 1, ret |-> db1,
         opened |-> (db = NoHandle)]

\* A release that forgets the handle on every release of it, not only the last.
ReleaseClientBodyClearsAlways(db, rc, arg) ==
    IF arg # NoHandle /\ arg = db
    THEN [db |-> NoHandle, ref_count |-> rc - 1]
    ELSE [db |-> db, ref_count |-> rc]

\* A release that keeps the handle when the count reaches zero.
ReleaseClientBodyKeepsHandle(db, rc, arg) ==
    IF arg # NoHandle /\ arg = db
    THEN [db |-> db, ref_count |-> rc - 1]
    ELSE [db |-> db, ref_count |-> rc]

\* A release that does not compare its argument with the stored handle.
ReleaseClientBodyAnyHandle(db, rc, arg) ==
    IF arg # NoHandle
    THEN LET rc1 == rc - 1
         IN  [db |-> IF rc1 = 0 THEN NoHandle ELSE db, ref_count |-> rc1]
    ELSE [db |-> db, ref_count |-> rc]

\* release_client, lines 70-74, on the pair <<db, ref_count>> and the argument.
ReleaseClientBody(db, rc, arg) ==
    IF arg # NoHandle /\ arg = db
    THEN LET rc1 == rc - 1
         IN  [db |-> IF rc1 = 0 THEN NoHandle ELSE db, ref_count |-> rc1]
    ELSE [db |-> db, ref_count |-> rc]

\* async with cls._lock (lines 46, 69): taken at once when free; a task that
\* finds it held suspends and tries again when resumed.
AcquireLock(t) ==
    /\ pc[t] \in {"gc_lock", "rc_lock"}
    /\ CanRun(t)
    /\ IF lock = None
       THEN /\ lock' = t
            /\ pc' = [pc EXCEPT ![t] = IF pc[t] = "gc_lock" THEN "gc_body" ELSE "rc_body"]
            /\ running' = t
       ELSE /\ running' = None
            /\ UNCHANGED <<lock, pc>>
    /\ UNCHANGED <<instDb, refCount, nextHandle, storeVars, call, local>>
    /\ UNCHANGED dataVars

GetClientStep(t) ==
    /\ pc[t] = "gc_body"
    /\ CanRun(t)
    /\ lock = t
    /\ LET r == GetClientBody(instDb, refCount, nextHandle + 1)
       IN  /\ instDb' = r.db
           /\ refCount' = r.ref_count
           /\ nextHandle' = IF r.opened THEN nextHandle + 1 ELSE nextHandle
           /\ local' = [local EXCEPT ![t].h = r.ret]
    /\ pc' = [pc EXCEPT ![t] = "gc_unlock"]
    /\ running' = t
    /\ UNCHANGED <<lock, storeVars, call>>
    /\ UNCHANGED dataVars

ReleaseClientStep(t) ==
    /\ pc[t] = "rc_body"
    /\ CanRun(t)
    /\ lock = t
    /\ LET r == ReleaseClientBody(instDb, refCount, local[t].h)
       IN  /\ instDb' = r.db
           /\ refCount' = r.ref_count
    /\ pc' = [pc EXCEPT ![t] = "rc_unlock"]
    /\ running' = t
    /\ UNCHANGED <<lock, nextHandle, storeVars, call, local>>
    /\ UNCHANGED dataVars

\* A get_client that is still inside `async with` when initialize suspends in
\* get_or_create_collection.
GetClientReturnKeepsLock(t) ==
    /\ pc[t] = "gc_unlock"
    /\ CanRun(t)
    /\ lock = t
    /\ IF call[t].op = "initialize"
       THEN /\ storeDb' = [storeDb EXCEPT ![call[t].store] = local[t].h]
            /\ pc' = [pc EXCEPT ![t] = "goc_list"]
            /\ running' = None
            /\ UNCHANGED <<lock, call, local>>
       ELSE /\ Return(t)
            /\ lock' = None
            /\ UNCHANGED storeDb
    /\ UNCHANGED <<instDb, refCount, nextHandle, storeData, collNames, searchIndexes>>
    /\ UNCHANGED dataVars

\* Leaving `async with` in get_client and returning to the caller: a direct
\* caller is done; initialize assigns self.db (line 88) and suspends in
\* get_or_create_collection on list_collection_names (line 1250).
GetClientReturn(t) ==
    /\ pc[t] = "gc_unlock"
    /\ CanRun(t)
    /\ lock = t
    /\ lock' = None
    /\ IF call[t].op = "initialize"
       THEN /\ storeDb' = [storeDb EXCEPT ![call[t].store] = local[t].h]
            /\ pc' = [pc EXCEPT ![t] = "goc_list"]
            /\ running' = None
            /\ UNCHANGED <<call, local>>
       ELSE /\ Return(t)
            /\ UNCHANGED storeDb
    /\ UNCHANGED <<instDb, refCount, nextHandle, storeData, collNames, searchIndexes>>
    /\ UNCHANGED dataVars

\* Leaving `async with` in release_client: a direct caller is done; finalize
\* clears self.db and self._data (lines 95-96) and returns.
ReleaseClientReturn(t) ==
    /\ pc[t] = "rc_unlock"
    /\ CanRun(t)
    /\ lock = t
    /\ lock' = None
    /\ IF call[t].op = "finalize"
       THEN /\ storeDb' = [storeDb EXCEPT ![call[t].store] = NoHandle]
            /\ storeData' = [storeData EXCEPT ![call[t].store] = None]
       ELSE UNCHANGED <<storeDb, storeData>>
    /\ Return(t)
    /\ UNCHANGED <<instDb, refCount, nextHandle, collNames, searchIndexes>>
    /\ UNCHANGED dataVars

\* Direct calls of the class methods.
StartGetClient(t) ==
    /\ Idle(t)
    /\ running = None
    /\ nextHandle < MaxHandles
    /\ refCount < MaxRefs
    /\ call' = [call EXCEPT ![t] = [op |-> "get_client"]]
    /\ UNCHANGED local
    /\ pc' = [pc EXCEPT ![t] = "gc_lock"]
    /\ running' = t
    /\ UNCHANGED <<cmVars, storeVars>>
    /\ UNCHANGED dataVars

\* release_client(db) with None, the live handle or a stale one.
StartReleaseClient(t) ==
    /\ Idle(t)
    /\ running = None
    /\ \E h \in {NoHandle} \cup (1..nextHandle) :
         /\ call' = [call EXCEPT ![t] = [op |-> "release_client", db |-> h]]
         /\ local' = [local EXCEPT ![t].h = h]
    /\ pc' = [pc EXCEPT ![t] = "rc_lock"]
    /\ running' = t
    /\ UNCHANGED <<cmVars, storeVars>>
    /\ UNCHANGED dataVars

\* ------------------------------------------------ initialize / finalize
\* An initialize without the `if self.db is None` test.
InitializeUnguarded(t) ==
    /\ Idle(t)
    /\ running = None
    /\ nextHandle < MaxHandles
    /\ refCount < MaxRefs
    /\ \E s \in LifeStores :
         /\ call' = [call EXCEPT ![t] = [op |-> "initialize", store |-> s]]
         /\ pc' = [pc EXCEPT ![t] = "gc_lock"]
         /\ running' = t
         /\ UNCHANGED local
    /\ UNCHANGED <<cmVars, storeVars>>
    /\ UNCHANGED dataVars

\* initialize (lines 86-90, 347-353, 963-971): nothing when self.db is set.
Initialize(t) ==
    /\ Idle(t)
    /\ running = None
    /\ nextHandle < MaxHandles
    /\ \E s \in LifeStores :
         IF storeDb[s] = NoHandle
         THEN /\ call' = [call EXCEPT ![t] = [op |-> "initialize", store |-> s]]
              /\ pc' = [pc EXCEPT ![t] = "gc_lock"]
              /\ running' = t
              /\ UNCHANGED local
         ELSE UNCHANGED <<pc, call, local, running>>
    /\ UNCHANGED <<cmVars, storeVars>>
    /\ UNCHANGED dataVars

\* initialize after the collection field is assigned: the vector store goes
\* on to create_vector_index_if_not_exists (line 969), the others return.
AfterCollection(t) ==
    IF call[t].store = "vector"
    THEN /\ pc' = [pc EXCEPT ![t] = "vi_list"]
         /\ running' = None
         /\ UNCHANGED <<call, local>>
    ELSE Return(t)

\* get_or_create_collection (lines 1249-1258): the answer of
\* list_collection_names arrives (or the call raises); an existing name needs
\* no further I/O and the collection field is assigned.
ListCollectionNames(t) ==
    /\ pc[t] = "goc_list"
    /\ running = None
    /\ \E ok \in BOOLEAN :
         LET name == CollectionName(call[t].store)
         IN  IF ~ok
             THEN /\ Return(t)
                  /\ UNCHANGED storeData
             ELSE IF name \in collNames
                  THEN /\ storeData' = [storeData EXCEPT ![call[t].store] = name]
                       /\ AfterCollection(t)
                  ELSE /\ pc' = [pc EXCEPT ![t] = "goc_create"]
                       /\ running' = None
                       /\ UNCHANGED <<storeData, call, local>>
    /\ UNCHANGED <<cmVars, storeDb, collNames, searchIndexes>>
    /\ UNCHANGED dataVars

\* create_collection (line 1253) raises when the name exists by now; the
\* exception leaves initialize with self.db set and the collection field unset.
CreateCollection(t) ==
    /\ pc[t] = "goc_create"
    /\ running = None
    /\ LET name == CollectionName(call[t].store)
       IN  IF name \in collNames
           THEN /\ Return(t)
                /\ UNCHANGED <<storeData, collNames>>
           ELSE /\ collNames' = collNames \cup {name}
                /\ storeData' = [storeData EXCEPT ![call[t].store] = name]
                /\ AfterCollection(t)
    /\ UNCHANGED <<cmVars, storeDb, searchIndexes>>
    /\ UNCHANGED dataVars

\* create_vector_index_if_not_exists (lines 979-1009): the answer of
\* list_search_indexes, issued on the collection just assigned, arrives; a
\* PyMongoError is caught and logged.
ListSearchIndexes(t) ==
    /\ pc[t] = "vi_list"
    /\ running = None
    /\ \E ok \in BOOLEAN :
         IF ok /\ CollectionName(call[t].store) \notin searchIndexes
         THEN /\ pc' = [pc EXCEPT ![t] = "vi_create"]
              /\ running' = None
              /\ UNCHANGED <<call, local>>
         ELSE Return(t)
    /\ UNCHANGED <<cmVars, storeVars, dataVars>>

\* create_search_index (line 1005) reads self._data again: a finalize in
\* between has set it to None and the attribute access raises; otherwise the
\* index is created, or the call raises a PyMongoError, which is caught.
CreateSearchIndex(t) ==
    /\ pc[t] = "vi_create"
    /\ running = None
    /\ \E ok \in BOOLEAN :
         IF ok /\ storeData[call[t].store] # None
         THEN searchIndexes' = searchIndexes \cup {storeData[call[t].store]}
         ELSE UNCHANGED searchIndexes
    /\ Return(t)
    /\ UNCHANGED <<cmVars, storeDb, storeData, collNames, dataVars>>

\* finalize (lines 92-96, 355-359, 973-977): nothing when self.db is None.
Finalize(t) ==
    /\ Idle(t)
    /\ running = None
    /\ \E s \in LifeStores :
         IF storeDb[s] # NoHandle
         THEN /\ call' = [call EXCEPT ![t] = [op |-> "finalize", store |-> s]]
              /\ local' = [local EXCEPT ![t].h = storeDb[s]]
              /\ pc' = [pc EXCEPT ![t] = "rc_lock"]
              /\ running' = t
         ELSE UNCHANGED <<pc, call, local, running>>
    /\ UNCHANGED <<cmVars, storeVars>>
    /\ UNCHANGED dataVars

\* ---------------------------------------------------- graph documents
\* A node document is [attrs, edges]: attrs maps the attribute names written
\* so far to their values, edges is the "edges" array.  An edge is a map with
\* the key "target" and the keys of the edge_data it was written with.
Empty == [k \in {} |-> ""]

GraphIds == {"A", "B", "A-A"}
RaceIds == {"A", "B"}
NodeDatas == {Empty, [entity_type |-> "person"], [edges |-> "x"]}
EdgeDatas == {[relation |-> "r1"], [relation |-> "r2", weight |-> "w"]}

Has(c, id) == id \in DOMAIN c

\* The targets of the edges array, in order.
Targets(es) == {es[i].target : i \in 1..Len(es)}

TotalEdges(c) ==
    LET RECURSIVE Sum(_)
        Sum(S) == IF S = {} THEN 0
                  ELSE LET x == CHOOSE x \in S : TRUE
                       IN  Len(c[x].edges) + Sum(S \ {x})
    IN  Sum(DOMAIN c)

\* An upsert that empties the edges array of the document it updates.
UpsertNodeOpResetsEdges(c, id, data) ==
    IF Has(c, id)
    THEN [c EXCEPT ![id] = [edges |-> <<>>, attrs |-> data @@ @.attrs]]
    ELSE c @@ (id :> [edges |-> <<>>, attrs |-> data])

\* update_one({"_id": id}, {"$set": data, "$setOnInsert": {"edges": []}},
\* upsert=True), lines 638-639: merges data into the attributes, creates the
\* document with an empty edges array when there is none.
UpsertNodeOp(c, id, data) ==
    IF Has(c, id)
    THEN [c EXCEPT ![id].attrs = data @@ @]
    ELSE c @@ (id :> [edges |-> <<>>, attrs |-> data])

\* node_data names the path that $setOnInsert writes (line 638).
Conflicts(data) == "edges" \in DOMAIN data

\* A $pull that empties the edges array.
PullEdgesClears(c, id, tgts) ==
    IF Has(c, id)
    THEN [c EXCEPT ![id].edges = <<>>]
    ELSE c

\* A $pull that removes nothing.
PullEdgesKeepsAll(c, id, tgts) == c

\* update_one({"_id": id}, {"$pull": {"edges": {"target": ...}}}), lines
\* 652-654 and 914-916: removes every edge of id whose target is in tgts;
\* nothing when id has no document.
PullEdges(c, id, tgts) ==
    IF Has(c, id)
    THEN [c EXCEPT ![id].edges = SelectSeq(@, LAMBDA e : e.target \notin tgts)]
    ELSE c

\* A $push that is never applied.
PushEdgeLost(c, id, edge) == c

\* A $push with upsert=True: creates the document when there is none.
PushEdgeUpserts(c, id, edge) ==
    IF Has(c, id)
    THEN [c EXCEPT ![id].edges = Append(@, edge)]
    ELSE c @@ (id :> [edges |-> <<edge>>, attrs |-> Empty])

\* update_one({"_id": id}, {"$push": {"edges": edge}}), lines 659-661: appends;
\* nothing when id has no document (no upsert).
PushEdge(c, id, edge) ==
    IF Has(c, id)
    THEN [c EXCEPT ![id].edges = Append(@, edge)]
    ELSE c

\* new_edge = {"target": tgt}; new_edge.update(edge_data), lines 657-658.
NewEdge(tgt, edge_data) == edge_data @@ [target |-> tgt]

\* A collection-wide $pull that removes nothing.
PullEdgesNowhere(c, tgts) == c

\* update_many({}, {"$pull": {"edges": {"target": ...}}}), lines 675, 891-893.
PullEdgesEverywhere(c, tgts) ==
    [id \in DOMAIN c |->
        [c[id] EXCEPT !.edges = SelectSeq(@, LAMBDA e : e.target \notin tgts)]]

\* A delete that removes no document.
DeleteDocsNone(c, ids) == c

\* delete_one / delete_many by _id, lines 678, 896 (and 163, 199, 300, 318,
\* 931, 1108, 1129, 1161, 1231).
DeleteDocs(c, ids) == [id \in DOMAIN c \ ids |-> c[id]]

\* ----------------------------------------------------- graph mutations
\* The collection field is set by initialize (line 350).
GraphReady == storeData["graph"] # None

\* A call ends: its result stays with the caller until the batch it was issued
\* in (one call, or calls awaited together) is collected.
FinishWith(t, r) ==
    /\ pc' = [pc EXCEPT ![t] = "done"]
    /\ running' = None
    /\ local' = [local EXCEPT ![t].result = r]
    /\ UNCHANGED call

Finish(t) == FinishWith(t, Returns(None))

HasReturned(t) == pc[t] = "done" /\ local[t].result.kind = "returned"
HasRaised(t) == pc[t] = "done" /\ local[t].result.kind = "raised"

\* A call starts: it runs up to its first database call and suspends there
\* (or returns at once when there is nothing to do).
Begin(t, c, at) ==
    /\ Idle(t)
    /\ running = None
    /\ GraphReady
    /\ \A u \in Tasks : pc[u] # "done"
    /\ call' = [call EXCEPT ![t] = c]
    /\ pc' = [pc EXCEPT ![t] = at]
    /\ local' = [local EXCEPT ![t] =
                    [NoLocal EXCEPT !.pre = coll,
                                    !.result = IF at = "done" THEN Returns(None) ELSE NoResult]]
    /\ running' = None
    /\ UNCHANGED <<coll, cmVars, storeVars, kvVars>>

\* The database applies the write the call waits for and the call resumes.
Apply(t, at, c2, next) ==
    /\ pc[t] = at
    /\ running = None
    /\ coll' = c2
    /\ IF next = "done"
       THEN Finish(t)
       ELSE /\ pc' = [pc EXCEPT ![t] = next]
            /\ running' = None
            /\ UNCHANGED <<call, local>>
    /\ UNCHANGED <<cmVars, storeVars, kvVars>>

\* The database call raises a PyMongoError: nothing is written and, with no
\* try block around the await, the exception leaves the coroutine.
Fail(t, at) ==
    /\ pc[t] = at
    /\ running = None
    /\ FinishWith(t, Raises)
    /\ UNCHANGED <<coll, cmVars, storeVars, kvVars>>

Write(t, at, c2, next) ==
    \/ Apply(t, at, c2, next)
    \/ Fail(t, at)

\* upsert_node, lines 632-639.
StartUpsertNode(t, id, data) ==
    Begin(t, [op |-> "upsert_node", id |-> id, data |-> data], "un_update")

\* $set of the path "edges" next to $setOnInsert of "edges" is rejected by the
\* server (conflicting update operators): the update raises, nothing is written.
UpsertNodeUpdate(t) ==
    /\ pc[t] = "un_update"
    /\ IF Conflicts(call[t].data)
       THEN Fail(t, "un_update")
       ELSE Write(t, "un_update", UpsertNodeOp(coll, call[t].id, call[t].data), "done")

\* upsert_edge, lines 641-661: upsert_node(src, {}), then $pull, then $push.
StartUpsertEdge(t, src, tgt, data) ==
    Begin(t, [op |-> "upsert_edge", data |-> data, tgt |-> tgt, src |-> src], "ue_node")

\* The edges stored and about to be appended stay below max.
EdgeRoom(max) ==
    TotalEdges(coll) + Cardinality({u \in Tasks : pc[u] \in {"ue_node", "ue_pull", "ue_push"}})
        < max

UpsertEdgeNode(t) ==
    Write(t, "ue_node", UpsertNodeOp(coll, call[t].src, Empty), "ue_pull")

UpsertEdgePull(t) ==
    Write(t, "ue_pull", PullEdges(coll, call[t].src, {call[t].tgt}), "ue_push")

UpsertEdgePush(t) ==
    Write(t, "ue_push", PushEdge(coll, call[t].src, NewEdge(call[t].tgt, call[t].data)), "done")

\* delete_node, lines 669-678: $pull everywhere, then delete_one.
StartDeleteNode(t, id) ==
    Begin(t, [op |-> "delete_node", id |-> id], "dn_pull")

DeleteNodePull(t) ==
    Write(t, "dn_pull", PullEdgesEverywhere(coll, {call[t].id}), "dn_delete")

DeleteNodeDelete(t) ==
    Write(t, "dn_delete", DeleteDocs(coll, {call[t].id}), "done")

\* remove_nodes, lines 880-898: returns at once on an empty list.
StartRemoveNodes(t, ids) ==
    Begin(t, [op |-> "remove_nodes", ids |-> ids], IF ids = {} THEN "done" ELSE "rn_pull")

\* A remove_nodes that leaves the edges to the removed nodes in place.
RemoveNodesPullNone(t) ==
    Write(t, "rn_pull", coll, "rn_delete")

RemoveNodesPull(t) ==
    Write(t, "rn_pull", PullEdgesEverywhere(coll, call[t].ids), "rn_delete")

RemoveNodesDelete(t) ==
    Write(t, "rn_delete", DeleteDocs(coll, call[t].ids), "done")

\* remove_edges, lines 900-922: one $pull per pair, issued together; the
\* database applies them in any order and the call resumes after the last.
\* The first update that raises ends the gather with its exception; the
\* updates still in flight are not cancelled and may be applied afterwards.
StartRemoveEdges(t, pairs) ==
    Begin(t, [op |-> "remove_edges", pairs |-> pairs], IF pairs = {} THEN "done" ELSE "re_updates")

RemoveEdgesUpdate(t) ==
    /\ call[t].op = "remove_edges"
    /\ pc[t] = "re_updates" \/ HasRaised(t)
    /\ running = None
    /\ \E p \in call[t].pairs \ local[t].applied, ok \in BOOLEAN :
         /\ coll' = IF ok THEN PullEdges(coll, p[1], {p[2]}) ELSE coll
         /\ LET done == local[t].applied \cup {p}
                res == IF ~ok THEN Raises
                       ELSE IF pc[t] = "re_updates" /\ done = call[t].pairs
                            THEN Returns(None)
                            ELSE local[t].result
            IN  /\ local' = [local EXCEPT ![t].applied = done, ![t].result = res]
                /\ pc' = [pc EXCEPT ![t] = IF res.kind = "none" THEN "re_updates" ELSE "done"]
    /\ running' = None
    /\ UNCHANGED <<call, cmVars, storeVars, kvVars>>

\* drop, lines 924-943: delete_many({}); a PyMongoError becomes the status
\* "error".
StartGraphDrop(t) ==
    Begin(t, [op |-> "graph_drop"], "gd_delete")

GraphDropDelete(t) ==
    /\ pc[t] = "gd_delete"
    /\ running = None
    /\ \E ok \in BOOLEAN :
         IF ok
         THEN /\ coll' = DeleteDocs(coll, DOMAIN coll)
              /\ FinishWith(t, Returns([status |-> "success",
                                        deleted_count |-> Cardinality(DOMAIN coll)]))
         ELSE /\ coll' = coll
              /\ FinishWith(t, Returns([status |-> "error"]))
    /\ UNCHANGED <<cmVars, storeVars, kvVars>>

\* The caller takes the results of the calls it awaited together.
Collect ==
    /\ running = None
    /\ \E t \in Tasks : pc[t] = "done"
    /\ \A t \in Tasks : pc[t] \in {"idle", "done"}
    /\ pc' = [t \in Tasks |-> "idle"]
    /\ call' = [t \in Tasks |-> NoCall]
    /\ local' = [t \in Tasks |-> NoLocal]
    /\ UNCHANGED <<running, coll, cmVars, storeVars, kvVars>>

UpsertEdgeSteps(t) ==
    \/ UpsertEdgeNode(t)
    \/ UpsertEdgePull(t)
    \/ UpsertEdgePush(t)

DeleteNodeSteps(t) ==
    \/ DeleteNodePull(t)
    \/ DeleteNodeDelete(t)

GraphSteps(t) ==
    \/ UpsertNodeUpdate(t)
    \/ UpsertEdgeSteps(t)
    \/ DeleteNodeSteps(t)
    \/ RemoveNodesPull(t)
    \/ RemoveNodesDelete(t)
    \/ RemoveEdgesUpdate(t)
    \/ GraphDropDelete(t)

\* -------------------------------------------------------- graph queries
\* $graphLookup with startWith/connectFromField "edges.target" and
\* connectToField "_id" (lines 389-396, 443-451, 773-781): the documents whose
\* _id is among the frontier have depth d; their edge targets are looked up at
\* depth d + 1 as long as d < maxDepth.  A document is found once.
RECURSIVE Expand(_, _, _, _, _)
Expand(c, frontier, visited, d, maxDepth) ==
    LET found == (frontier \cap DOMAIN c) \ visited
    IN  IF found = {} THEN visited
        ELSE IF d >= maxDepth THEN visited \cup found
        ELSE Expand(c, UNION {Targets(c[x].edges) : x \in found},
                    visited \cup found, d + 1, maxDepth)

GraphLookup(c, start, maxDepth) == Expand(c, Targets(c[start].edges), {}, 0, maxDepth)

\* has_node, lines 419-425.
has_node(c, id) == Has(c, id)

\* has_edge, lines 427-467: the target must be among the documents found by a
\* $graphLookup with maxDepth 0.
has_edge(c, src, tgt) ==
    IF ~Has(c, src) THEN FALSE
    ELSE tgt \in GraphLookup(c, src, 0)

\* Number of edges in an edges array whose target is id.
CountTo(es, id) == Len(SelectSeq(es, LAMBDA e : e.target = id))

\* The inbound pipeline, lines 501-520: $match edges.target, $size of the
\* $filter, $group with $sum.
Inbound(c, id) ==
    LET RECURSIVE Sum(_)
        Sum(S) == IF S = {} THEN 0
                  ELSE LET x == CHOOSE x \in S : TRUE
                       IN  CountTo(c[x].edges, id) + Sum(S \ {x})
    IN  Sum({x \in DOMAIN c : id \in Targets(c[x].edges)})

\* node_degree, lines 475-522: 0 when id has no document.
node_degree(c, id) ==
    IF ~Has(c, id) THEN 0
    ELSE Len(c[id].edges) + Inbound(c, id)

\* The node ids in ascending order ({"$sort": {"_id": 1}}, line 695).
IdOrder == <<"A", "A-A", "B">>

\* get_all_labels, lines 686-702: the stored ids, sorted.
get_all_labels(c) == SelectSeq(IdOrder, LAMBDA x : x \in DOMAIN c)

\* f"{node_id}-{edge['target']}", lines 743, 814, 850.
EdgeId(src, tgt) == src \o "-" \o tgt

\* KnowledgeGraphNode / KnowledgeGraphEdge as built at lines 729-737, 746-756.
KGNode(c, id) == [id |-> id, labels |-> <<id>>, properties |-> c[id].attrs]

KGEdge(src, e) ==
    [id |-> EdgeId(src, e.target),
     target |-> e.target,
     properties |-> [k \in DOMAIN e \ {"target", "relation"} |-> e[k]],
     type |-> IF "relation" \in DOMAIN e THEN e.relation ELSE "",
     source |-> src]

EmptyGraph == [edges |-> {}, nodes |-> {}]

\* A loop over a document's edges that does not look at seen_edges.
AddEdgesAll(g, src, es, i) ==
    [g EXCEPT !.edges = @ \cup {KGEdge(src, es[k]) : k \in i..Len(es)}]

\* The loop over a document's edges (lines 742-758, 813-829, 849-865): an edge
\* is appended unless its id is in seen_edges.
RECURSIVE AddEdges(_, _, _, _)
AddEdges(g, src, es, i) ==
    IF i > Len(es) THEN g
    ELSE LET e == es[i]
         IN  AddEdges(IF EdgeId(src, e.target) \in {x.id : x \in g.edges}
                      THEN g
                      ELSE [g EXCEPT !.edges = @ \cup {KGEdge(src, e)}],
                      src, es, i + 1)

\* One document of the cursor (lines 726-758, 832-865): skipped when its id is
\* in seen_nodes.
AddNode(g, c, id) ==
    IF id \in {n.id : n \in g.nodes} THEN g
    ELSE AddEdges([g EXCEPT !.nodes = @ \cup {KGNode(c, id)}], id, c[id].edges, 1)

RECURSIVE AddNodes(_, _, _, _)
AddNodes(g, c, order, i) ==
    IF i > Len(order) THEN g
    ELSE AddNodes(AddNode(g, c, order[i]), c, order, i + 1)

\* The orders in which a cursor may yield the documents S: the database fixes
\* none.
Orders(S) ==
    {o \in [1..Cardinality(S) -> S] : \A i, j \in 1..Cardinality(S) : o[i] = o[j] => i = j}

\* get_knowledge_graph, lines 704-874: the results it can return, one per
\* order of the documents.  With "*" every document; otherwise nothing when
\* the start document is missing, else the start document followed by the
\* documents $graphLookup found with maxDepth = max_depth.
get_knowledge_graph(c, label, max_depth) ==
    IF label = "*"
    THEN {AddNodes(EmptyGraph, c, o, 1) : o \in Orders(DOMAIN c)}
    ELSE IF ~Has(c, label) THEN {EmptyGraph}
    ELSE {AddNodes(AddNode(EmptyGraph, c, label), c, o, 1) :
             o \in Orders(GraphLookup(c, label, max_depth))}

\* An edge count that tells only whether there is an edge.
EdgeDegreeOneIfAny(c, src, tgt) ==
    IF Has(c, src) /\ tgt \in Targets(c[src].edges) THEN 1 ELSE 0

\* sum(1 for e in edges if e.get("target") == tgt_id), line 555.
RECURSIVE SumTargets(_, _, _)
SumTargets(es, tgt, i) ==
    IF i > Len(es) THEN 0
    ELSE (IF es[i].target = tgt THEN 1 ELSE 0) + SumTargets(es, tgt, i + 1)

\* edge_degree, lines 524-556: 0 when the $match finds no document.
edge_degree(c, src, tgt) ==
    IF ~Has(c, src) THEN 0 ELSE SumTargets(c[src].edges, tgt, 1)

\* The loop of get_edge, lines 593-596: the first edge with the target.
RECURSIVE FirstEdge(_, _, _)
FirstEdge(es, tgt, i) ==
    IF i > Len(es) THEN None
    ELSE IF es[i].target = tgt THEN es[i]
    ELSE FirstEdge(es, tgt, i + 1)

\* get_edge, lines 570-596: None when the $match finds no document.
get_edge(c, src, tgt) ==
    IF ~Has(c, src) THEN None ELSE FirstEdge(c[src].edges, tgt, 1)

\* What get_knowledge_graph has built when the cursor raises: the documents
\* that had arrived, in the order they arrived.
PartialGraphs(c) ==
    UNION {{AddNodes(EmptyGraph, c, o, 1) : o \in Orders(S)} : S \in SUBSET DOMAIN c}

\* ------------------------------------------------- graph query actions
\* edge_degree and get_edge: one aggregate, no try block.
StartEdgeDegree(t, src, tgt) ==
    Begin(t, [op |-> "edge_degree", tgt |-> tgt, src |-> src], "ed_aggregate")

EdgeDegreeAggregate(t) ==
    /\ pc[t] = "ed_aggregate"
    /\ running = None
    /\ \E ok \in BOOLEAN :
         FinishWith(t, IF ok THEN Returns(edge_degree(coll, call[t].src, call[t].tgt))
                       ELSE Raises)
    /\ UNCHANGED <<coll, cmVars, storeVars, kvVars>>

StartGetEdge(t, src, tgt) ==
    Begin(t, [op |-> "get_edge", tgt |-> tgt, src |-> src], "ge_aggregate")

GetEdgeAggregate(t) ==
    /\ pc[t] = "ge_aggregate"
    /\ running = None
    /\ \E ok \in BOOLEAN :
         FinishWith(t, IF ok THEN Returns(get_edge(coll, call[t].src, call[t].tgt))
                       ELSE Raises)
    /\ UNCHANGED <<coll, cmVars, storeVars, kvVars>>

\* get_knowledge_graph, lines 704-874.  The first read is find({}) for "*"
\* and find({"_id": label}) otherwise; a PyMongoError is caught and the result
\* built so far is returned.
StartGetKnowledgeGraph(t, label, max_depth) ==
    Begin(t, [op |-> "get_knowledge_graph", label |-> label, max_depth |-> max_depth],
          "kg_find")

\* A first read whose PyMongoError is not caught.
KnowledgeGraphFindUncaught(t) ==
    /\ pc[t] = "kg_find"
    /\ running = None
    /\ \E ok \in BOOLEAN :
         IF ~ok THEN FinishWith(t, Raises)
         ELSE IF call[t].label = "*"
         THEN \E g \in get_knowledge_graph(coll, "*", call[t].max_depth) :
                 FinishWith(t, Returns(g))
         ELSE IF Has(coll, call[t].label)
              THEN /\ pc' = [pc EXCEPT ![t] = "kg_aggregate"]
                   /\ running' = None
                   /\ UNCHANGED <<call, local>>
              ELSE FinishWith(t, Returns(EmptyGraph))
    /\ UNCHANGED <<coll, cmVars, storeVars, kvVars>>

KnowledgeGraphFind(t) ==
    /\ pc[t] = "kg_find"
    /\ running = None
    /\ \E ok \in BOOLEAN :
         IF call[t].label = "*"
         THEN \E g \in IF ok THEN get_knowledge_graph(coll, "*", call[t].max_depth)
                        ELSE PartialGraphs(coll) :
                 FinishWith(t, Returns(g))
         ELSE IF ok /\ Has(coll, call[t].label)
              THEN /\ pc' = [pc EXCEPT ![t] = "kg_aggregate"]
                   /\ running' = None
                   /\ UNCHANGED <<call, local>>
              ELSE FinishWith(t, Returns(EmptyGraph))
    /\ UNCHANGED <<coll, cmVars, storeVars, kvVars>>

\* The $graphLookup aggregate, lines 767-865: one document, or none when the
\* start document is gone by now or the aggregate raises.
KnowledgeGraphAggregate(t) ==
    /\ pc[t] = "kg_aggregate"
    /\ running = None
    /\ \E ok \in BOOLEAN :
         \E g \in IF ok THEN get_knowledge_graph(coll, call[t].label, call[t].max_depth)
                  ELSE {EmptyGraph} :
            FinishWith(t, Returns(g))
    /\ UNCHANGED <<coll, cmVars, storeVars, kvVars>>

GraphQuerySteps(t) ==
    \/ EdgeDegreeAggregate(t)
    \/ GetEdgeAggregate(t)
    \/ KnowledgeGraphFind(t)
    \/ KnowledgeGraphAggregate(t)

\* ------------------------------------------------ key-value documents
\* A key-value or doc-status document is the map of its fields, "_id" included.
KVIds == {"a", "b"}
FilterIds == {"a", "b", "c"}
KVRecords == {[status |-> "pending", content |-> "x"], [content |-> "y"]}
Modes == {"default", "mix"}
CacheKeys == {"h1"}
CacheValues == {[return |-> "r1"], [return |-> "r2"]}
MaxItems == 2

\* data[k]["_id"] = k (lines 120, 130, 253).
WithId(v, k) == ("_id" :> k) @@ v

\* update_one({"_id": k}, {"$set": v}, upsert=True), lines 132, 255, 1044:
\* writes the fields of v into the document, which keeps its other fields;
\* creates the document when there is none.
SetFields(c, k, v) ==
    IF Has(c, k)
    THEN [c EXCEPT ![k] = v @@ @]
    ELSE c @@ (k :> v)

\* A $setOnInsert that writes into an existing document as well.
SetOnInsertOverwrites(c, k, v) ==
    IF Has(c, k)
    THEN [c EXCEPT ![k] = v]
    ELSE c @@ (k :> v)

\* update_one({"_id": k}, {"$setOnInsert": v}, upsert=True), lines 122-124:
\* creates the document when there is none, nothing otherwise.
SetOnInsert(c, k, v) ==
    IF Has(c, k)
    THEN c
    ELSE c @@ (k :> v)

\* key = f"{mode}_{k}" (line 119).
CacheKey(mode, k) == mode \o "_" \o k

\* is_namespace(self.namespace, NameSpace.KV_STORE_LLM_RESPONSE_CACHE), line 115.
IsCache(s) == CollectionName(s) = "llm_response_cache"

\* The updates an upsert issues, as <<_id, fields>> (lines 117-125, 129-133).
UpsertItems(s, data) ==
    IF IsCache(s)
    THEN UNION {{<<CacheKey(mode, k), data[mode][k]>> : k \in DOMAIN data[mode]} :
                   mode \in DOMAIN data}
    ELSE {<<k, data[k]>> : k \in DOMAIN data}

UpdateOne(s, c, p) ==
    IF IsCache(s)
    THEN SetOnInsert(c, p[1], WithId(p[2], p[1]))
    ELSE SetFields(c, p[1], WithId(p[2], p[1]))

\* The arguments of upsert: id -> record, or mode -> (key -> value).
KVDatas ==
    UNION {[S -> KVRecords] : S \in {S \in SUBSET KVIds : Cardinality(S) <= MaxItems}}
CacheDatas ==
    UNION {[M -> UNION {[K -> CacheValues] : K \in SUBSET CacheKeys}] : M \in SUBSET Modes}

\* str.startswith, as the anchored regular expression tests it.
StartsWith(str, prefix) ==
    Len(str) >= Len(prefix) /\ SubSeq(str, 1, Len(prefix)) = prefix

\* {"$regex": f"^({'|'.join(modes)})_"}, lines 183-184, for modes that are
\* plain words: the id starts with one of the modes followed by "_".
MatchesModes(id, modes) == \E mode \in modes : StartsWith(id, mode \o "_")

\* A filter_keys that reports every requested key as missing.
FilterKeysAll(c, keys) == keys

\* filter_keys, lines 105-108, 242-245: keys minus the ids found among them.
filter_keys(c, keys) == keys \ {x \in DOMAIN c : x \in keys}

\* get_by_id, lines 98-99, 235-236: find_one.
get_by_id(c, id) == IF Has(c, id) THEN c[id] ELSE None

\* get_by_mode_and_id in the response-cache namespace, lines 138-144:
\* find_one by mode + "_" + id; {id: document} when found, None otherwise.
get_by_mode_and_id(c, mode, id) ==
    LET key == mode \o "_" \o id
    IN  IF Has(c, key) THEN (id :> c[key]) ELSE None

\* -------------------------------------------------- key-value actions
\* _data is set by initialize (lines 89, 226).
KVReady(s) == storeData[s] # None

\* A call on store s starts and suspends at its first database call (or
\* returns at once when there is nothing to do).
BeginKV(t, s, c, at) ==
    /\ Idle(t)
    /\ running = None
    /\ KVReady(s)
    /\ \A u \in Tasks : pc[u] # "done"
    /\ call' = [call EXCEPT ![t] = c]
    /\ pc' = [pc EXCEPT ![t] = at]
    /\ local' = [local EXCEPT ![t] =
                    [NoLocal EXCEPT !.pre = docs[CollectionName(s)],
                                    !.result = IF at = "done" THEN Returns(None) ELSE NoResult]]
    /\ running' = None
    /\ UNCHANGED <<dataVars, cmVars, storeVars>>

\* upsert, lines 110-134, 247-257: one update per item under asyncio.gather.
\* An update that raises ends the gather with its exception (no try block);
\* the updates still in flight may be applied afterwards.
StartKVUpsert(t, s, data) ==
    BeginKV(t, s, [op |-> "upsert", store |-> s, data |-> data],
            IF UpsertItems(s, data) = {} THEN "done" ELSE "kv_updates")

\* An upsert whose failing update undoes the updates already applied.
KVUpsertUpdateRollsBack(t) ==
    /\ call[t].op = "upsert"
    /\ pc[t] = "kv_updates"
    /\ running = None
    /\ LET s == call[t].store
           items == UpsertItems(s, call[t].data)
       IN  \E p \in items \ local[t].applied, ok \in BOOLEAN :
             /\ docs' = [docs EXCEPT ![CollectionName(s)] =
                            IF ok THEN UpdateOne(s, @, p) ELSE local[t].pre]
             /\ LET done == local[t].applied \cup {p}
                    res == IF ~ok THEN Raises
                           ELSE IF done = items THEN Returns(None)
                           ELSE local[t].result
                IN  /\ local' = [local EXCEPT ![t].applied = done, ![t].result = res]
                    /\ pc' = [pc EXCEPT ![t] = IF res.kind = "none" THEN "kv_updates" ELSE "done"]
    /\ running' = None
    /\ UNCHANGED <<coll, vdb, call, cmVars, storeVars>>

KVUpsertUpdate(t) ==
    /\ call[t].op = "upsert"
    /\ pc[t] = "kv_updates" \/ HasRaised(t)
    /\ running = None
    /\ LET s == call[t].store
           items == UpsertItems(s, call[t].data)
       IN  \E p \in items \ local[t].applied, ok \in BOOLEAN :
             /\ docs' = IF ok
                        THEN [docs EXCEPT ![CollectionName(s)] = UpdateOne(s, @, p)]
                        ELSE docs
             /\ LET done == local[t].applied \cup {p}
                    res == IF ~ok THEN Raises
                           ELSE IF pc[t] = "kv_updates" /\ done = items
                                THEN Returns(None)
                                ELSE local[t].result
                IN  /\ local' = [local EXCEPT ![t].applied = done, ![t].result = res]
                    /\ pc' = [pc EXCEPT ![t] = IF res.kind = "none" THEN "kv_updates" ELSE "done"]
    /\ running' = None
    /\ UNCHANGED <<coll, vdb, call, cmVars, storeVars>>

\* filter_keys: the cursor is read, or reading it raises (no try block).
StartFilterKeys(t, s, keys) ==
    BeginKV(t, s, [op |-> "filter_keys", store |-> s, keys |-> keys], "fk_find")

FilterKeysFind(t) ==
    /\ pc[t] = "fk_find"
    /\ running = None
    /\ \E ok \in BOOLEAN :
         FinishWith(t, IF ok
                       THEN Returns(filter_keys(docs[CollectionName(call[t].store)], call[t].keys))
                       ELSE Raises)
    /\ UNCHANGED <<dataVars, cmVars, storeVars>>

\* get_by_mode_and_id, lines 136-147: None at once in any namespace but the
\* response cache; there one find_one, with no try block around it.
StartGetByModeAndId(t, s, mode, id) ==
    BeginKV(t, s, [op |-> "get_by_mode_and_id", store |-> s, id |-> id, mode |-> mode],
            IF IsCache(s) THEN "gm_find" ELSE "done")

GetByModeFind(t) ==
    /\ pc[t] = "gm_find"
    /\ running = None
    /\ \E ok \in BOOLEAN :
         FinishWith(t, IF ok
                       THEN Returns(get_by_mode_and_id(docs[CollectionName(call[t].store)],
                                                       call[t].mode, call[t].id))
                       ELSE Raises)
    /\ UNCHANGED <<dataVars, cmVars, storeVars>>

\* delete, lines 153-168, 314-326: nothing for an empty list; a PyMongoError
\* of delete_many is caught and logged.
StartKVDelete(t, s, ids) ==
    BeginKV(t, s, [op |-> "delete", store |-> s, ids |-> ids],
            IF ids = {} THEN "done" ELSE "kd_delete")

KVDeleteMany(t) ==
    /\ pc[t] = "kd_delete"
    /\ running = None
    /\ \E ok \in BOOLEAN :
         docs' = IF ok
                 THEN [docs EXCEPT ![CollectionName(call[t].store)] = DeleteDocs(@, call[t].ids)]
                 ELSE docs
    /\ Finish(t)
    /\ UNCHANGED <<coll, vdb, cmVars, storeVars>>

\* drop, lines 192-211, 293-312: delete_many({}); a PyMongoError becomes the
\* status "error".
StartKVDrop(t, s) ==
    BeginKV(t, s, [op |-> "drop", store |-> s], "kdrop_delete")

KVDropDelete(t) ==
    /\ pc[t] = "kdrop_delete"
    /\ running = None
    /\ LET n == CollectionName(call[t].store)
       IN  \E ok \in BOOLEAN :
             IF ok
             THEN /\ docs' = [docs EXCEPT ![n] = DeleteDocs(@, DOMAIN @)]
                  /\ FinishWith(t, Returns([status |-> "success",
                                            deleted_count |-> Cardinality(DOMAIN docs[n])]))
             ELSE /\ docs' = docs
                  /\ FinishWith(t, Returns([status |-> "error"]))
    /\ UNCHANGED <<coll, vdb, cmVars, storeVars>>

\* drop_cache_by_modes, lines 170-190: False at once for None or an empty
\* list; else delete_many by the pattern and True; any exception is caught
\* and becomes False.
StartDropCacheByModes(t, s, modes) ==
    /\ Idle(t)
    /\ running = None
    /\ KVReady(s)
    /\ \A u \in Tasks : pc[u] # "done"
    /\ call' = [call EXCEPT ![t] = [op |-> "drop_cache_by_modes", store |-> s, modes |-> modes]]
    /\ pc' = [pc EXCEPT ![t] = IF modes = {} THEN "done" ELSE "dc_delete"]
    /\ local' = [local EXCEPT ![t] =
                    [NoLocal EXCEPT !.pre = docs[CollectionName(s)],
                                    !.result = IF modes = {} THEN Returns(FALSE) ELSE NoResult]]
    /\ running' = None
    /\ UNCHANGED <<dataVars, cmVars, storeVars>>

DropCacheDelete(t) ==
    /\ pc[t] = "dc_delete"
    /\ running = None
    /\ LET n == CollectionName(call[t].store)
       IN  \E ok \in BOOLEAN :
             /\ docs' = IF ok
                        THEN [docs EXCEPT ![n] =
                                 DeleteDocs(@, {id \in DOMAIN @ : MatchesModes(id, call[t].modes)})]
                        ELSE docs
             /\ FinishWith(t, Returns(ok))
    /\ UNCHANGED <<coll, vdb, cmVars, storeVars>>

KVWriteSteps(t) ==
    \/ KVUpsertUpdate(t)
    \/ KVDeleteMany(t)
    \/ KVDropDelete(t)

KVSteps(t) ==
    \/ KVWriteSteps(t)
    \/ FilterKeysFind(t)

\* ----------------------------------------------------- vector documents
\* A vector document is the map of its fields: "_id", "created_at", the meta
\* fields of the record it was written from, and "vector".
VecIds == {"v1", "v2", "v3"}
VecRecords ==
    {[content |-> "c1"],
     [content |-> "c2", src_id |-> "A", tgt_id |-> "B"],
     [content |-> "c3", src_id |-> "B", tgt_id |-> "A", note |-> "n"]}
ContentRecords == {[content |-> "c1"], [content |-> "c2"]}
Texts == {"c1", "c2", "c3"}
EntityNames == {"A", "B"}

\* self.meta_fields (line 1025).
MetaFields == {"content", "src_id", "tgt_id"}

\* int(time.time()) at the start of an upsert (line 1019).
Times == {1, 2}

MaxRecords == 3
MaxBatch == 2
MaxTopK == 2

\* cosine_better_than_threshold (line 959), in hundredths.
Thresholds == {0, 80, 100}

\* self.embedding_func: one vector per text.
Embed(text) ==
    CASE text = "c1" -> <<1, 0>>
      [] text = "c2" -> <<0, 1>>
      [] OTHER -> <<1, 1>>

EmbedBatch(batch) == [j \in 1..Len(batch) |-> Embed(batch[j])]

\* vectorSearchScore of the cosine similarity, (1 + cos) / 2 in hundredths,
\* for the vectors Embed produces.
Score(q, v) ==
    IF q = v THEN 100
    ELSE IF q[1] * v[1] + q[2] * v[2] = 0 THEN 50
    ELSE 85

Range(f) == {f[i] : i \in DOMAIN f}

\* len(range(0, n, size)), line 1032.
NumBatches(n, size) == (n + size - 1) \div size

\* contents[i: i + size] for i in range(0, len(contents), size), lines 1030-1033.
Batches(contents, size) ==
    [b \in 1..NumBatches(Len(contents), size) |->
        SubSeq(contents, (b - 1) * size + 1,
               IF b * size < Len(contents) THEN b * size ELSE Len(contents))]

\* A gather that hands back the results in the order the calls completed.
GatheredAsCompleted(batches, order) ==
    [i \in 1..Len(batches) |-> EmbedBatch(batches[order[i]])]

\* asyncio.gather(*embedding_tasks), line 1036: the results in the order of
\* the awaitables, whatever the order in which they completed.
Gathered(batches, order) ==
    [i \in 1..Len(batches) |-> EmbedBatch(batches[i])]

\* np.concatenate(embeddings_list), line 1037.
RECURSIVE Concatenate(_)
Concatenate(seqs) ==
    IF seqs = <<>> THEN <<>> ELSE Head(seqs) \o Concatenate(Tail(seqs))

\* The fields of a record that are meta fields (line 1025).
Meta(rec) == [k \in DOMAIN rec \cap MetaFields |-> rec[k]]

\* contents = [v["content"] for v in data.values()], line 1029.
Contents(data) == [i \in 1..Len(data) |-> data[i][2].content]

\* list_data with d["vector"] set, lines 1021-1028 and 1038-1039: later keys
\* of the dict display win.
ListData(data, now, size, order) ==
    LET embeddings == Concatenate(Gathered(Batches(Contents(data), size), order))
    IN  [i \in 1..Len(data) |->
            ("vector" :> embeddings[i]) @@ Meta(data[i][2])
                @@ ("created_at" :> now) @@ ("_id" :> data[i][1])]

\* The arguments of upsert: the items of the dict in insertion order.
VecDatas(ids, recs, max) ==
    UNION {{d \in [1..n -> ids \X recs] :
               \A i, j \in 1..n : d[i][1] = d[j][1] => i = j} : n \in 0..max}

\* A $match that lets every score pass.
AnyScore(score, th) == TRUE

\* {"$match": {"score": {"$gte": threshold}}}, line 1074.
AboveThreshold(score, th) == score >= th

\* $vectorSearch with limit top_k, lines 1065-1071: at most top_k of the
\* documents that have a vector, none without the index.
Candidates(c, indexed, top_k) ==
    IF indexed
    THEN {S \in SUBSET {id \in DOMAIN c : "vector" \in DOMAIN c[id]} :
             Cardinality(S) <= top_k}
    ELSE {{}}

\* $addFields score, $match, $project vector: 0 and the returned dicts,
\* lines 1073-1091 (the order of the list is left out).
QueryResult(c, S, q, th) ==
    {LET doc == c[id]
         score == Score(q, doc.vector)
         shown == [k \in DOMAIN doc \ {"vector"} |-> doc[k]]
     IN  ("id" :> doc["_id"]) @@ ("distance" :> score)
             @@ ("created_at" :> doc.created_at) @@ ("score" :> score) @@ shown :
       id \in {x \in S : AboveThreshold(Score(q, c[x].vector), th)}}

\* get_by_id, lines 1170-1191.
vec_get_by_id(c, id) ==
    IF Has(c, id)
    THEN IF "id" \in DOMAIN c[id] THEN c[id] ELSE ("id" :> c[id]["_id"]) @@ c[id]
    ELSE None

\* compute_mdhash_id(entity_name, prefix="ent-"), line 1124.
EntityId(name) == "ent-" \o name

\* find({"$or": [{"src_id": name}, {"tgt_id": name}]}), lines 1145-1148.
Relations(c, name) ==
    {id \in DOMAIN c :
        \/ "src_id" \in DOMAIN c[id] /\ c[id].src_id = name
        \/ "tgt_id" \in DOMAIN c[id] /\ c[id].tgt_id = name}

\* ------------------------------------------------------- vector actions
\* _data is set by initialize (line 966).
VecReady == storeData["vector"] # None

BeginVec(t, c, at) ==
    /\ Idle(t)
    /\ running = None
    /\ VecReady
    /\ \A u \in Tasks : pc[u] # "done"
    /\ call' = [call EXCEPT ![t] = c]
    /\ pc' = [pc EXCEPT ![t] = at]
    /\ local' = [local EXCEPT ![t] =
                    [NoLocal EXCEPT !.pre = vdb,
                                    !.result = IF at = "done" THEN Returns(None) ELSE NoResult]]
    /\ running' = None
    /\ UNCHANGED <<dataVars, cmVars, storeVars>>

\* An awaited call raises and no try block catches it.
FailVec(t, at) ==
    /\ pc[t] = at
    /\ running = None
    /\ FinishWith(t, Raises)
    /\ UNCHANGED <<dataVars, cmVars, storeVars>>

\* upsert, lines 1011-1048: nothing for empty data; size is
\* self._max_batch_size (line 961), now is current_time.
StartVecUpsert(t, data, now, size) ==
    BeginVec(t, [op |-> "vec_upsert", data |-> data, size |-> size, now |-> now],
             IF Len(data) = 0 THEN "done" ELSE "vu_embed")

\* One embedding call of the gather completes (line 1036); after the last one
\* the vectors are assigned and the updates are issued (lines 1037-1045).
VecEmbedDone(t) ==
    /\ pc[t] = "vu_embed"
    /\ running = None
    /\ \E b \in 1..NumBatches(Len(call[t].data), call[t].size) \ Range(local[t].order) :
         /\ local' = [local EXCEPT ![t].order = Append(@, b)]
         /\ pc' = [pc EXCEPT ![t] =
                      IF Len(local'[t].order) = NumBatches(Len(call[t].data), call[t].size)
                      THEN "vu_updates" ELSE "vu_embed"]
    /\ running' = None
    /\ UNCHANGED <<call, dataVars, cmVars, storeVars>>

VecEmbedFails(t) == FailVec(t, "vu_embed")

\* One update of the gather is applied or raises (lines 1041-1046); after the
\* last one upsert returns list_data.
VecUpsertUpdate(t) ==
    /\ call[t].op = "vec_upsert"
    /\ pc[t] = "vu_updates" \/ (HasRaised(t) /\ Len(local[t].order) > 0 /\
                                   Len(local[t].order) = NumBatches(Len(call[t].data), call[t].size))
    /\ running = None
    /\ LET list_data == ListData(call[t].data, call[t].now, call[t].size, local[t].order)
       IN  \E i \in (1..Len(list_data)) \ local[t].applied, ok \in BOOLEAN :
             /\ vdb' = IF ok THEN SetFields(vdb, list_data[i]["_id"], list_data[i]) ELSE vdb
             /\ LET done == local[t].applied \cup {i}
                    res == IF ~ok THEN Raises
                           ELSE IF pc[t] = "vu_updates" /\ done = 1..Len(list_data)
                                THEN Returns(list_data)
                                ELSE local[t].result
                IN  /\ local' = [local EXCEPT ![t].applied = done, ![t].result = res]
                    /\ pc' = [pc EXCEPT ![t] = IF res.kind = "none" THEN "vu_updates" ELSE "done"]
    /\ running' = None
    /\ UNCHANGED <<coll, docs, call, cmVars, storeVars>>

\* query, lines 1050-1091: the embedding of the text, then the aggregation;
\* neither await is inside a try block.
StartVecQuery(t, text, top_k, th) ==
    BeginVec(t, [op |-> "query", text |-> text, top_k |-> top_k, threshold |-> th], "vq_embed")

VecQueryEmbed(t) ==
    \/ /\ pc[t] = "vq_embed"
       /\ running = None
       /\ pc' = [pc EXCEPT ![t] = "vq_aggregate"]
       /\ running' = None
       /\ UNCHANGED <<call, local, dataVars, cmVars, storeVars>>
    \/ FailVec(t, "vq_embed")

VecQueryAggregate(t) ==
    \/ /\ pc[t] = "vq_aggregate"
       /\ running = None
       /\ \E S \in Candidates(vdb, storeData["vector"] \in searchIndexes, call[t].top_k) :
            FinishWith(t, Returns(QueryResult(vdb, S, Embed(call[t].text), call[t].threshold)))
       /\ UNCHANGED <<dataVars, cmVars, storeVars>>
    \/ FailVec(t, "vq_aggregate")

\* delete, lines 1097-1115: nothing for an empty list; a PyMongoError is caught.
StartVecDelete(t, ids) ==
    BeginVec(t, [op |-> "vec_delete", ids |-> ids], IF ids = {} THEN "done" ELSE "vd_delete")

VecDeleteMany(t) ==
    /\ pc[t] = "vd_delete"
    /\ running = None
    /\ \E ok \in BOOLEAN : vdb' = IF ok THEN DeleteDocs(vdb, call[t].ids) ELSE vdb
    /\ Finish(t)
    /\ UNCHANGED <<coll, docs, cmVars, storeVars>>

\* delete_entity, lines 1117-1135: delete_one by the hashed id; a PyMongoError
\* is caught.
StartDeleteEntity(t, name) ==
    BeginVec(t, [op |-> "delete_entity", name |-> name], "de_delete")

VecDeleteOne(t) ==
    /\ pc[t] = "de_delete"
    /\ running = None
    /\ \E ok \in BOOLEAN :
         vdb' = IF ok THEN DeleteDocs(vdb, {EntityId(call[t].name)}) ELSE vdb
    /\ Finish(t)
    /\ UNCHANGED <<coll, docs, cmVars, storeVars>>

\* delete_entity_relation, lines 1137-1164: find the relations of the entity,
\* return when there are none, else delete them by id; a PyMongoError of
\* either call is caught.
StartDeleteRelation(t, name) ==
    BeginVec(t, [op |-> "delete_entity_relation", name |-> name], "dr_find")

VecRelationFind(t) ==
    /\ pc[t] = "dr_find"
    /\ running = None
    /\ \E ok \in BOOLEAN :
         LET found == Relations(vdb, call[t].name)
         IN  IF ok /\ found # {}
             THEN /\ local' = [local EXCEPT ![t].applied = found]
                  /\ pc' = [pc EXCEPT ![t] = "dr_delete"]
                  /\ running' = None
                  /\ UNCHANGED call
             ELSE Finish(t)
    /\ UNCHANGED <<dataVars, cmVars, storeVars>>

VecRelationDelete(t) ==
    /\ pc[t] = "dr_delete"
    /\ running = None
    /\ \E ok \in BOOLEAN :
         vdb' = IF ok THEN DeleteDocs(vdb, local[t].applied) ELSE vdb
    /\ Finish(t)
    /\ UNCHANGED <<coll, docs, cmVars, storeVars>>

\* drop, lines 1223-1246: delete_many({}), then create_vector_index_if_not_exists,
\* which catches its own PyMongoError; a PyMongoError of delete_many becomes
\* the status "error".
StartVecDrop(t) ==
    BeginVec(t, [op |-> "vec_drop"], "vdrop_delete")

VecDropDelete(t) ==
    /\ pc[t] = "vdrop_delete"
    /\ running = None
    /\ \E ok \in BOOLEAN :
         IF ok
         THEN /\ vdb' = DeleteDocs(vdb, DOMAIN vdb)
              /\ local' = [local EXCEPT ![t].result =
                              [kind |-> "none",
                               value |-> [status |-> "success",
                                          deleted_count |-> Cardinality(DOMAIN vdb)]]]
              /\ pc' = [pc EXCEPT ![t] = "vdrop_list"]
              /\ running' = None
              /\ UNCHANGED call
         ELSE /\ vdb' = vdb
              /\ FinishWith(t, Returns([status |-> "error"]))
    /\ UNCHANGED <<coll, docs, cmVars, storeVars>>

VecDropListIndexes(t) ==
    /\ pc[t] = "vdrop_list"
    /\ running = None
    /\ \E ok \in BOOLEAN :
         IF ok /\ storeData["vector"] \notin searchIndexes
         THEN /\ pc' = [pc EXCEPT ![t] = "vdrop_create"]
              /\ running' = None
              /\ UNCHANGED <<call, local>>
         ELSE FinishWith(t, Returns(local[t].result.value))
    /\ UNCHANGED <<dataVars, cmVars, storeVars>>

VecDropCreateIndex(t) ==
    /\ pc[t] = "vdrop_create"
    /\ running = None
    /\ \E ok \in BOOLEAN :
         searchIndexes' = IF ok THEN searchIndexes \cup {storeData["vector"]} ELSE searchIndexes
    /\ FinishWith(t, Returns(local[t].result.value))
    /\ UNCHANGED <<dataVars, cmVars, storeDb, storeData, collNames>>

VecUpsertSteps(t) ==
    \/ VecEmbedDone(t)
    \/ VecEmbedFails(t)
    \/ VecUpsertUpdate(t)

VecDropSteps(t) ==
    \/ VecDropDelete(t)
    \/ VecDropListIndexes(t)
    \/ VecDropCreateIndex(t)

VecSteps(t) ==
    \/ VecUpsertSteps(t)
    \/ VecQueryEmbed(t)
    \/ VecQueryAggregate(t)
    \/ VecDeleteMany(t)
    \/ VecDeleteOne(t)
    \/ VecRelationFind(t)
    \/ VecRelationDelete(t)
    \/ VecDropSteps(t)

\* ---------------------------------------------------------------- specs
Init ==
    /\ instDb = NoHandle
    /\ refCount = 0
    /\ lock = None
    /\ nextHandle = 0
    /\ storeDb = [s \in Stores |-> NoHandle]
    /\ storeData = [s \in Stores |-> None]
    /\ collNames = {}
    /\ searchIndexes = {}
    /\ pc = [t \in Tasks |-> "idle"]
    /\ call = [t \in Tasks |-> NoCall]
    /\ local = [t \in Tasks |-> NoLocal]
    /\ running = None
    /\ coll = <<>>
    /\ docs = [n \in KVNames |-> <<>>]
    /\ vdb = <<>>

ManagerSteps(t) ==
    \/ AcquireLock(t)
    \/ GetClientStep(t)
    \/ GetClientReturn(t)
    \/ ReleaseClientStep(t)
    \/ ReleaseClientReturn(t)

\* The stores' life cycle: initialize and finalize calls, any interleaving.
StoreTasks == {"t1", "t2"}

NextStores ==
    \E t \in StoreTasks :
        \/ Initialize(t)
        \/ Finalize(t)
        \/ ListCollectionNames(t)
        \/ CreateCollection(t)
        \/ ListSearchIndexes(t)
        \/ CreateSearchIndex(t)
        \/ ManagerSteps(t)

SpecStores == Init /\ [][NextStores]_vars

\* ClientManager alone: direct get_client / release_client calls.
NextManager ==
    \E t \in Tasks :
        \/ StartGetClient(t)
        \/ StartReleaseClient(t)
        \/ ManagerSteps(t)

SpecManager == Init /\ [][NextManager]_vars

\* The graph store after initialize: one handle, held by the graph store.
InitGraph ==
    /\ instDb = 1
    /\ refCount = 1
    /\ lock = None
    /\ nextHandle = 1
    /\ storeDb = [s \in Stores |-> IF s = "graph" THEN 1 ELSE NoHandle]
    /\ storeData = [s \in Stores |-> IF s = "graph" THEN CollectionName(s) ELSE None]
    /\ collNames = {CollectionName("graph")}
    /\ searchIndexes = {}
    /\ pc = [t \in Tasks |-> "idle"]
    /\ call = [t \in Tasks |-> NoCall]
    /\ local = [t \in Tasks |-> NoLocal]
    /\ running = None
    /\ coll = <<>>
    /\ docs = [n \in KVNames |-> <<>>]
    /\ vdb = <<>>

PairSets(ids) == {ps \in SUBSET (ids \X ids) : Cardinality(ps) <= MaxPairs}

\* Graph calls that do not overlap: each runs to completion and is collected
\* before the next starts.
SeqTask == "t1"

NextGraph ==
    \/ \E id \in GraphIds, data \in NodeDatas : StartUpsertNode(SeqTask, id, data)
    \/ \E src \in GraphIds, tgt \in GraphIds, data \in EdgeDatas :
          /\ EdgeRoom(MaxEdges)
          /\ StartUpsertEdge(SeqTask, src, tgt, data)
    \/ \E id \in GraphIds : StartDeleteNode(SeqTask, id)
    \/ \E ids \in SUBSET GraphIds : StartRemoveNodes(SeqTask, ids)
    \/ \E pairs \in PairSets(RaceIds) : StartRemoveEdges(SeqTask, pairs)
    \/ StartGraphDrop(SeqTask)
    \/ GraphSteps(SeqTask)
    \/ Collect

SpecGraph == InitGraph /\ [][NextGraph]_vars

\* The graphs the queries are run on: documents for some of the ids, with or
\* without an attribute, each with up to MaxQueryEdges edges in any order, to
\* any of the ids, parallel edges included (every one of them is left by
\* upsert_node calls and overlapping upsert_edge calls).
QueryLabels == RaceIds \cup {"*"}
Depths == 0..MaxDepth
QueryEdges == {NewEdge(tgt, data) : tgt \in RaceIds, data \in EdgeDatas}
EdgeLists == UNION {[1..n -> QueryEdges] : n \in 0..MaxQueryEdges}
QueryDocs == {[edges |-> es, attrs |-> a] : es \in EdgeLists, a \in NodeDatas \ {[edges |-> "x"]}}
QueryGraphs == UNION {[S -> QueryDocs] : S \in SUBSET RaceIds}

InitQuery ==
    /\ instDb = 1
    /\ refCount = 1
    /\ lock = None
    /\ nextHandle = 1
    /\ storeDb = [s \in Stores |-> IF s = "graph" THEN 1 ELSE NoHandle]
    /\ storeData = [s \in Stores |-> IF s = "graph" THEN CollectionName(s) ELSE None]
    /\ collNames = {CollectionName("graph")}
    /\ searchIndexes = {}
    /\ pc = [t \in Tasks |-> "idle"]
    /\ call = [t \in Tasks |-> NoCall]
    /\ local = [t \in Tasks |-> NoLocal]
    /\ running = None
    /\ coll \in QueryGraphs
    /\ docs = [n \in KVNames |-> <<>>]
    /\ vdb = <<>>

\* Graph queries that do not overlap, on a graph that no call changes.
NextQuery ==
    \/ \E src \in RaceIds, tgt \in RaceIds : StartEdgeDegree(SeqTask, src, tgt)
    \/ \E src \in RaceIds, tgt \in RaceIds : StartGetEdge(SeqTask, src, tgt)
    \/ \E label \in QueryLabels, max_depth \in Depths :
          StartGetKnowledgeGraph(SeqTask, label, max_depth)
    \/ GraphQuerySteps(SeqTask)
    \/ Collect

SpecQuery == InitQuery /\ [][NextQuery]_vars

\* upsert_edge calls that do not overlap, on the same graphs; a call is made
\* while the source holds at most MaxQueryEdges edges to other targets.
OtherEdges(c, src, tgt) ==
    IF Has(c, src) THEN SelectSeq(c[src].edges, LAMBDA e : e.target # tgt) ELSE <<>>

NextEdgeFrame ==
    \/ \E src \in RaceIds, tgt \in RaceIds, data \in EdgeDatas :
          /\ Len(OtherEdges(coll, src, tgt)) <= MaxQueryEdges
          /\ StartUpsertEdge(SeqTask, src, tgt, data)
    \/ UpsertEdgeSteps(SeqTask)
    \/ Collect

SpecEdgeFrame == InitQuery /\ [][NextEdgeFrame]_vars

\* Two upsert_edge calls issued together, between calls that do not overlap.
RaceTasks == {"t1", "t2"}

NextEdgeRace ==
    \/ \E t \in RaceTasks, src \in RaceIds, tgt \in RaceIds, data \in EdgeDatas :
          /\ EdgeRoom(MaxRaceEdges)
          /\ StartUpsertEdge(t, src, tgt, data)
    \/ \E id \in RaceIds :
          /\ \A u \in Tasks : Idle(u)
          /\ StartDeleteNode("t1", id)
    \/ \E t \in RaceTasks : UpsertEdgeSteps(t) \/ DeleteNodeSteps(t)
    \/ Collect

SpecEdgeRace == InitGraph /\ [][NextEdgeRace]_vars

\* The calls that change the graph, issued by two tasks in any interleaving
\* of their database steps.
OneEdgeData == {[relation |-> "r1"]}

NextGraphRace ==
    \/ \E t \in RaceTasks, id \in RaceIds, data \in NodeDatas : StartUpsertNode(t, id, data)
    \/ \E t \in RaceTasks, src \in RaceIds, tgt \in RaceIds, data \in OneEdgeData :
          /\ EdgeRoom(MaxEdges)
          /\ StartUpsertEdge(t, src, tgt, data)
    \/ \E t \in RaceTasks, id \in RaceIds : StartDeleteNode(t, id)
    \/ \E t \in RaceTasks, ids \in SUBSET RaceIds : StartRemoveNodes(t, ids)
    \/ \E t \in RaceTasks, pair \in RaceIds \X RaceIds : StartRemoveEdges(t, {pair})
    \/ \E t \in RaceTasks :
          \/ UpsertNodeUpdate(t)
          \/ UpsertEdgeSteps(t)
          \/ DeleteNodeSteps(t)
          \/ RemoveNodesPull(t)
          \/ RemoveNodesDelete(t)
          \/ RemoveEdgesUpdate(t)
    \/ Collect

SpecGraphRace == InitGraph /\ [][NextGraphRace]_vars

\* The key-value, cache and doc-status stores after initialize.
InitKV ==
    /\ instDb = 1
    /\ refCount = Cardinality(KVStores)
    /\ lock = None
    /\ nextHandle = 1
    /\ storeDb = [s \in Stores |-> IF s \in KVStores THEN 1 ELSE NoHandle]
    /\ storeData = [s \in Stores |-> IF s \in KVStores THEN CollectionName(s) ELSE None]
    /\ collNames = KVNames
    /\ searchIndexes = {}
    /\ pc = [t \in Tasks |-> "idle"]
    /\ call = [t \in Tasks |-> NoCall]
    /\ local = [t \in Tasks |-> NoLocal]
    /\ running = None
    /\ coll = <<>>
    /\ docs = [n \in KVNames |-> <<>>]
    /\ vdb = <<>>

\* Calls on the key-value and doc-status stores that do not overlap.
PlainStores == {"kv", "docstatus"}

NextKV ==
    \/ \E s \in PlainStores, data \in KVDatas : StartKVUpsert(SeqTask, s, data)
    \/ \E s \in PlainStores, keys \in SUBSET FilterIds : StartFilterKeys(SeqTask, s, keys)
    \/ \E s \in PlainStores, ids \in SUBSET KVIds : StartKVDelete(SeqTask, s, ids)
    \/ \E s \in PlainStores : StartKVDrop(SeqTask, s)
    \/ KVSteps(SeqTask)
    \/ Collect

SpecKV == InitKV /\ [][NextKV]_vars

\* Calls on the response cache, issued one at a time or two together.
NextCache ==
    \/ \E t \in RaceTasks, data \in CacheDatas : StartKVUpsert(t, "cache", data)
    \/ \E ids \in SUBSET {CacheKey(mode, k) : mode \in Modes, k \in CacheKeys} :
          /\ \A u \in Tasks : Idle(u)
          /\ StartKVDelete("t1", "cache", ids)
    \/ /\ \A u \in Tasks : Idle(u)
       /\ StartKVDrop("t1", "cache")
    \/ \E t \in RaceTasks : KVWriteSteps(t)
    \/ Collect

SpecCache == InitKV /\ [][NextCache]_vars

\* Cache writes under modes of which one begins with another followed by
\* "_", and drop_cache_by_modes, not overlapping.
AllModes == Modes \cup {"mix_x"}
ModeDatas ==
    UNION {[M -> [CacheKeys -> CacheValues]] : M \in SUBSET AllModes \ {{}}}

NextCacheModes ==
    \/ \E data \in ModeDatas : StartKVUpsert(SeqTask, "cache", data)
    \/ \E modes \in SUBSET AllModes : StartDropCacheByModes(SeqTask, "cache", modes)
    \/ KVUpsertUpdate(SeqTask)
    \/ DropCacheDelete(SeqTask)
    \/ Collect

SpecCacheModes == InitKV /\ [][NextCacheModes]_vars

\* Cache writes and get_by_mode_and_id reads, not overlapping, with modes and
\* keys that may contain "_"; an ordinary namespace that holds a record under
\* an id of the same form.
KeyModes == {"mix", "mix_x"}
ModeKeys == {"h1", "x_h1"}
KeyDatas ==
    UNION {[M -> UNION {[K -> CacheValues] : K \in SUBSET ModeKeys}] : M \in SUBSET KeyModes}
PlainDatas == [{"mix_h1"} -> KVRecords]

NextCacheKeys ==
    \/ \E data \in KeyDatas : StartKVUpsert(SeqTask, "cache", data)
    \/ \E data \in PlainDatas : StartKVUpsert(SeqTask, "kv", data)
    \/ \E s \in {"cache", "kv"}, mode \in KeyModes, id \in ModeKeys :
          StartGetByModeAndId(SeqTask, s, mode, id)
    \/ KVUpsertUpdate(SeqTask)
    \/ GetByModeFind(SeqTask)
    \/ Collect

SpecCacheKeys == InitKV /\ [][NextCacheKeys]_vars

\* The vector store after initialize; the search index exists or its
\* creation has failed (the error is swallowed, lines 1008-1009).
InitVector ==
    /\ instDb = 1
    /\ refCount = 1
    /\ lock = None
    /\ nextHandle = 1
    /\ storeDb = [s \in Stores |-> IF s = "vector" THEN 1 ELSE NoHandle]
    /\ storeData = [s \in Stores |-> IF s = "vector" THEN CollectionName(s) ELSE None]
    /\ collNames = {CollectionName("vector")}
    /\ searchIndexes \in {{}, {CollectionName("vector")}}
    /\ pc = [t \in Tasks |-> "idle"]
    /\ call = [t \in Tasks |-> NoCall]
    /\ local = [t \in Tasks |-> NoLocal]
    /\ running = None
    /\ coll = <<>>
    /\ docs = [n \in KVNames |-> <<>>]
    /\ vdb = <<>>

\* Vector upserts and queries that do not overlap.
NextVector ==
    \/ \E data \in VecDatas(VecIds, ContentRecords, MaxRecords), size \in 1..MaxBatch :
          StartVecUpsert(SeqTask, data, 1, size)
    \/ \E text \in Texts, top_k \in 1..MaxTopK, th \in Thresholds :
          StartVecQuery(SeqTask, text, top_k, th)
    \/ StartVecDrop(SeqTask)
    \/ VecUpsertSteps(SeqTask)
    \/ VecQueryEmbed(SeqTask)
    \/ VecQueryAggregate(SeqTask)
    \/ VecDropSteps(SeqTask)
    \/ Collect

SpecVector == InitVector /\ [][NextVector]_vars

\* Upserts of one id with records that carry different fields, not
\* overlapping.
OneVecId == {"v1"}

NextVecReplace ==
    \/ \E data \in VecDatas(OneVecId, VecRecords, 1), now \in Times :
          StartVecUpsert(SeqTask, data, now, MaxBatch)
    \/ VecUpsertSteps(SeqTask)
    \/ Collect

SpecVecReplace == InitVector /\ [][NextVecReplace]_vars

\* Every store after initialize; the search index exists or its creation has
\* failed.
InitAll ==
    /\ instDb = 1
    /\ refCount = Cardinality(Stores \ {"kv2"})
    /\ lock = None
    /\ nextHandle = 1
    /\ storeDb = [s \in Stores |-> IF s = "kv2" THEN NoHandle ELSE 1]
    /\ storeData = [s \in Stores |-> IF s = "kv2" THEN None ELSE CollectionName(s)]
    /\ collNames = {CollectionName(s) : s \in Stores}
    /\ searchIndexes \in {{}, {CollectionName("vector")}}
    /\ pc = [t \in Tasks |-> "idle"]
    /\ call = [t \in Tasks |-> NoCall]
    /\ local = [t \in Tasks |-> NoLocal]
    /\ running = None
    /\ coll = <<>>
    /\ docs = [n \in KVNames |-> <<>>]
    /\ vdb = <<>>

\* The inputs of the calls on all stores together.
OneKVId == {"a"}
OneRecord == {[content |-> "y"]}
OneMode == {"default"}
EntityVecIds == {EntityId("A"), "v1"}
RelationRecords == {r \in VecRecords : DOMAIN r = {"content", "src_id", "tgt_id"}}
FirstTime == {t \in Times : \A u \in Times : t <= u}

\* Writes, deletes and drops on every store, not overlapping.
NextAll ==
    \/ \E id \in RaceIds, data \in NodeDatas \ {Empty} : StartUpsertNode(SeqTask, id, data)
    \/ \E src \in RaceIds, tgt \in RaceIds :
          /\ EdgeRoom(MaxAllEdges)
          /\ StartUpsertEdge(SeqTask, src, tgt, [relation |-> "r1"])
    \/ \E id \in RaceIds : StartDeleteNode(SeqTask, id)
    \/ \E ids \in SUBSET RaceIds : StartRemoveNodes(SeqTask, ids)
    \/ \E src \in RaceIds, tgt \in RaceIds : StartRemoveEdges(SeqTask, {<<src, tgt>>})
    \/ StartGraphDrop(SeqTask)
    \/ GraphSteps(SeqTask)
    \/ \E s \in PlainStores, id \in OneKVId, r \in OneRecord :
          StartKVUpsert(SeqTask, s, id :> r)
    \/ \E mode \in OneMode, k \in CacheKeys, v \in CacheValues :
          StartKVUpsert(SeqTask, "cache", mode :> (k :> v))
    \/ \E s \in PlainStores, ids \in SUBSET OneKVId : StartKVDelete(SeqTask, s, ids)
    \/ \E ids \in SUBSET {CacheKey(mode, k) : mode \in OneMode, k \in CacheKeys} :
          StartKVDelete(SeqTask, "cache", ids)
    \/ \E s \in KVStores : StartKVDrop(SeqTask, s)
    \/ KVWriteSteps(SeqTask)
    \/ \E data \in VecDatas(EntityVecIds, RelationRecords, 1), now \in FirstTime :
          StartVecUpsert(SeqTask, data, now, 1)
    \/ \E ids \in SUBSET EntityVecIds : StartVecDelete(SeqTask, ids)
    \/ \E name \in EntityNames : StartDeleteEntity(SeqTask, name)
    \/ \E name \in EntityNames : StartDeleteRelation(SeqTask, name)
    \/ StartVecDrop(SeqTask)
    \/ VecUpsertSteps(SeqTask)
    \/ VecDeleteMany(SeqTask)
    \/ VecDeleteOne(SeqTask)
    \/ VecRelationFind(SeqTask)
    \/ VecRelationDelete(SeqTask)
    \/ VecDropSteps(SeqTask)
    \/ Collect

SpecAll == InitAll /\ [][NextAll]_vars

\* One store after initialize, the others never opened.
GatherStores == Stores \ {"kv2"}

InitOneStore ==
    /\ instDb = 1
    /\ refCount = 1
    /\ lock = None
    /\ nextHandle = 1
    /\ \E s \in GatherStores :
         /\ storeDb = [x \in Stores |-> IF x = s THEN 1 ELSE NoHandle]
         /\ storeData = [x \in Stores |-> IF x = s THEN CollectionName(s) ELSE None]
         /\ collNames = {CollectionName(s)}
    /\ searchIndexes = {}
    /\ pc = [t \in Tasks |-> "idle"]
    /\ call = [t \in Tasks |-> NoCall]
    /\ local = [t \in Tasks |-> NoLocal]
    /\ running = None
    /\ coll = <<>>
    /\ docs = [n \in KVNames |-> <<>>]
    /\ vdb = <<>>

\* The calls that issue one write per item under asyncio.gather, by one
\* task, and filter_keys calls of a second task that may overlap them.
ReadTask == "t2"
TwoVecIds == {"v1", "v2"}

NextGather ==
    \/ \E s \in PlainStores, data \in KVDatas : StartKVUpsert(SeqTask, s, data)
    \/ \E data \in CacheDatas : StartKVUpsert(SeqTask, "cache", data)
    \/ KVUpsertUpdate(SeqTask)
    \/ \E s \in PlainStores : StartFilterKeys(ReadTask, s, KVIds)
    \/ FilterKeysFind(ReadTask)
    \/ \E data \in VecDatas(TwoVecIds, ContentRecords, MaxItems), now \in FirstTime,
          size \in 1..MaxBatch :
          StartVecUpsert(SeqTask, data, now, size)
    \/ VecUpsertSteps(SeqTask)
    \/ \E src \in RaceIds, tgt \in RaceIds :
          /\ EdgeRoom(MaxEdges)
          /\ StartUpsertEdge(SeqTask, src, tgt, [relation |-> "r1"])
    \/ UpsertEdgeSteps(SeqTask)
    \/ \E pairs \in PairSets(RaceIds) : StartRemoveEdges(SeqTask, pairs)
    \/ RemoveEdgesUpdate(SeqTask)
    \/ Collect

SpecGather == InitOneStore /\ [][NextGather]_vars

\* ------------------------------------------------------- claims C1 - C4
Quiescent == \A t \in Tasks : Idle(t)
LiveStores == {s \in Stores : storeDb[s] # NoHandle}

\* The states another coroutine can observe: the event loop has the processor.
\* (finalize clears the manager's handle and its own db field in one
\* uninterrupted run, lines 94-95.)
Observable == running = None

\* C1: at most one handle is live: in every state a coroutine can observe,
\* every store whose db field is set holds the handle stored in ClientManager;
\* and a handle is opened only while no store holds an earlier one.
C1_OneLiveHandle ==
    /\ [](Observable => \A s \in Stores : storeDb[s] # NoHandle => storeDb[s] = instDb)
    /\ [][nextHandle' # nextHandle => \A s \in Stores : storeDb[s] = NoHandle]_vars

\* Two stores share the second handle ever opened.
C1_Witness ==
    /\ Observable
    /\ nextHandle = 2
    /\ storeDb["kv"] = 2
    /\ storeDb["vector"] = 2
    /\ storeDb["graph"] = NoHandle
    /\ instDb = 2

\* C2: release_client(db) takes one off ref_count when db is the stored handle
\* and forgets the handle exactly when the count reaches zero; with None or
\* another handle it changes neither the count nor the stored handle.
C2_ReleaseEffect ==
    [][\A t \in Tasks :
         (pc[t] = "rc_body" /\ pc'[t] = "rc_unlock") =>
            IF local[t].h # NoHandle /\ local[t].h = instDb
            THEN /\ refCount' = refCount - 1
                 /\ (refCount' = 0 => instDb' = NoHandle)
                 /\ (refCount' # 0 => instDb' = instDb)
            ELSE /\ refCount' = refCount
                 /\ instDb' = instDb]_vars

\* A stale handle has been released while a newer handle is live.
C2_Witness ==
    \E t \in Tasks :
        /\ pc[t] = "rc_unlock"
        /\ local[t].h # NoHandle
        /\ instDb # NoHandle
        /\ local[t].h # instDb
        /\ refCount >= 1

\* C3: get_client returns the stored handle and adds one to ref_count when a
\* handle is stored, opening none; otherwise it opens one handle, stores it
\* and sets ref_count to 1; every caller receives the stored handle.
C3_AcquireEffect ==
    [][\A t \in Tasks :
         (pc[t] = "gc_body" /\ pc'[t] = "gc_unlock") =>
            /\ local'[t].h = instDb'
            /\ instDb' # NoHandle
            /\ IF instDb # NoHandle
               THEN /\ instDb' = instDb
                    /\ refCount' = refCount + 1
                    /\ nextHandle' = nextHandle
               ELSE /\ nextHandle' = nextHandle + 1
                    /\ instDb' = nextHandle'
                    /\ refCount' = 1]_vars

\* A second caller has received the one handle opened so far.
C3_Witness ==
    \E t \in Tasks :
        /\ pc[t] = "gc_unlock"
        /\ nextHandle = 1
        /\ refCount = 2
        /\ local[t].h = 1
        /\ instDb = 1

\* C4: while no initialize or finalize is in progress ref_count is the number
\* of stores whose db field is set, and when no store has it set the count
\* is 0 and no handle is stored.
C4_Paired ==
    Quiescent =>
        /\ refCount = Cardinality(LiveStores)
        /\ (LiveStores = {} => refCount = 0 /\ instDb = NoHandle)

\* Every store has been finalized after two handles were opened.
C4_Witness ==
    /\ Quiescent
    /\ nextHandle = 2
    /\ LiveStores = {}
    /\ refCount = 0

\* ------------------------------------------------------ claims C5 - C10
\* The edges of src whose target is tgt, in list order.
EdgesTo(c, src, tgt) ==
    IF Has(c, src) THEN SelectSeq(c[src].edges, LAMBDA e : e.target = tgt) ELSE <<>>

AtMostOnePerTarget(c) ==
    \A id \in DOMAIN c : \A tgt \in Targets(c[id].edges) : Len(EdgesTo(c, id, tgt)) = 1

\* C5: with calls that do not overlap, every edge list holds at most one edge
\* per target, and when upsert_edge(src, tgt, attrs) has returned src has a
\* document whose only edge to tgt is target = tgt plus exactly attrs.
C5_OneEdgePerTarget ==
    /\ AtMostOnePerTarget(coll)
    /\ \A t \in Tasks :
         (HasReturned(t) /\ call[t].op = "upsert_edge") =>
            /\ Has(coll, call[t].src)
            /\ Len(EdgesTo(coll, call[t].src, call[t].tgt)) = 1
            /\ LET e == EdgesTo(coll, call[t].src, call[t].tgt)[1]
               IN  /\ e.target = call[t].tgt
                   /\ DOMAIN e = DOMAIN call[t].data \cup {"target"}
                   /\ \A k \in DOMAIN call[t].data : e[k] = call[t].data[k]

\* upsert_edge has returned for a source that has attributes and a second edge.
C5_Witness ==
    /\ HasReturned(SeqTask)
    /\ call[SeqTask].op = "upsert_edge"
    /\ call[SeqTask].data = [relation |-> "r2", weight |-> "w"]
    /\ Len(coll[call[SeqTask].src].edges) = 2
    /\ coll[call[SeqTask].src].attrs # Empty

\* Both tasks have finished an upsert_edge for one pair, issued together.
RaceDone(t, u) ==
    /\ t # u
    /\ HasReturned(t) /\ HasReturned(u)
    /\ call[t].op = "upsert_edge" /\ call[u].op = "upsert_edge"
    /\ call[t].src = call[u].src /\ call[t].tgt = call[u].tgt

\* C6 (amended): after two concurrent upsert_edge calls for one pair, with no
\* other writer, src has one or two edges to tgt, never none.
C6_OneOrTwoEdges ==
    \A t, u \in RaceTasks :
        RaceDone(t, u) => Len(EdgesTo(coll, call[t].src, call[t].tgt)) \in {1, 2}

\* Both calls have returned and left a duplicate edge.
C6_Witness ==
    \E t, u \in RaceTasks :
        /\ RaceDone(t, u)
        /\ call[t].data # call[u].data
        /\ Len(EdgesTo(coll, call[t].src, call[t].tgt)) = 2

\* The k-th database write of upsert_edge(src, tgt, data).
UpsertEdgeWrite(c, cl, k) ==
    CASE k = 1 -> UpsertNodeOp(c, cl.src, Empty)
      [] k = 2 -> PullEdges(c, cl.src, {cl.tgt})
      [] k = 3 -> PushEdge(c, cl.src, NewEdge(cl.tgt, cl.data))

\* The ways to interleave the three writes of two calls.
Schedules == {f \in [1..6 -> {1, 2}] : Cardinality({i \in 1..6 : f[i] = 1}) = 3}

RECURSIVE RunSchedule(_, _, _, _, _, _, _)
RunSchedule(c, cl1, cl2, f, i, k1, k2) ==
    IF i > 6 THEN c
    ELSE IF f[i] = 1
         THEN RunSchedule(UpsertEdgeWrite(c, cl1, k1), cl1, cl2, f, i + 1, k1 + 1, k2)
         ELSE RunSchedule(UpsertEdgeWrite(c, cl2, k2), cl1, cl2, f, i + 1, k1, k2 + 1)

\* The numbers of edges src -> tgt two calls can leave, over all interleavings.
RaceOutcomes(c, cl1, cl2) ==
    {Len(EdgesTo(RunSchedule(c, cl1, cl2, f, 1, 1, 1), cl1.src, cl1.tgt)) : f \in Schedules}

\* C6 as stated: when two upsert_edge calls for one pair have been issued
\* together, each of zero, one and two edges is a possible outcome.
C6_ZeroOneOrTwo ==
    \A t, u \in RaceTasks :
        (/\ t # u
         /\ pc[t] = "ue_node" /\ pc[u] = "ue_node"
         /\ call[t].src = call[u].src /\ call[t].tgt = call[u].tgt)
        => {0, 1, 2} \subseteq RaceOutcomes(coll, call[t], call[u])

\* The ids that occur in the collection, as documents or as edge targets.
KnownIds(c) == DOMAIN c \cup UNION {Targets(c[x].edges) : x \in DOMAIN c}

OwnEdges(c, id) == IF Has(c, id) THEN Len(c[id].edges) ELSE 0

RECURSIVE EdgesInto(_, _, _)
EdgesInto(c, S, id) ==
    IF S = {} THEN 0
    ELSE LET x == CHOOSE x \in S : TRUE
         IN  Len(EdgesTo(c, x, id)) + EdgesInto(c, S \ {x}, id)

\* C7 as stated: node_degree(id) is the length of id's own edge list plus the
\* number of edges in all documents whose target is id.
C7_DegreeIsOutPlusIn ==
    \A id \in KnownIds(coll) :
        node_degree(coll, id) = OwnEdges(coll, id) + EdgesInto(coll, DOMAIN coll, id)

\* The documents within d hops of label, label itself at 0 hops.
RECURSIVE WithinHops(_, _, _)
WithinHops(c, S, d) ==
    IF d = 0 THEN S
    ELSE WithinHops(c, S \cup (UNION {Targets(c[x].edges) : x \in S} \cap DOMAIN c), d - 1)

StoredPairs(c) == {<<x, y>> \in (DOMAIN c) \X KnownIds(c) : y \in Targets(c[x].edges)}

\* C8 as stated: for a stored label, get_knowledge_graph(label, max_depth)
\* returns exactly the nodes within max_depth hops of label and exactly the
\* edges among them.
C8_BoundedSubgraph ==
    \A label \in DOMAIN coll, d \in 0..MaxDepth :
        \A g \in get_knowledge_graph(coll, label, d) :
            LET within == WithinHops(coll, {label}, d)
            IN  /\ {n.id : n \in g.nodes} = within
                /\ {<<e.source, e.target>> : e \in g.edges}
                     = {p \in StoredPairs(coll) : p[1] \in within /\ p[2] \in within}

\* C9 as stated: get_knowledge_graph("*") returns all stored node ids and, for
\* every stored edge, an edge with its source and target.
C9_WildcardSubgraph ==
    \A g \in get_knowledge_graph(coll, "*", MaxDepth) :
        /\ {n.id : n \in g.nodes} = DOMAIN coll
        /\ \A p \in StoredPairs(coll) :
             \E e \in g.edges : e.source = p[1] /\ e.target = p[2]

\* C10 as stated: has_edge(src, tgt) holds exactly when tgt is the target of an
\* edge in src's edge list, also when tgt has no document.
C10_HasEdgeIsMembership ==
    \A src \in KnownIds(coll), tgt \in KnownIds(coll) :
        has_edge(coll, src, tgt) <=> (Has(coll, src) /\ tgt \in Targets(coll[src].edges))

\* ---------------------------------------------------- claims C11 - C20
\* The documents other than those of ids are what they were before the call.
OthersKept(pre, post, ids) ==
    /\ DOMAIN post \ ids = DOMAIN pre \ ids
    /\ \A x \in DOMAIN post \ ids : post[x] = pre[x]

\* C11: when upsert_node(id, attrs) has returned, id has one document that
\* carries attrs, its edge list is the one it had before the call (empty when
\* the call created the document), every other document is unchanged, and a
\* second upsert_node(id, attrs) would leave the collection as it is.
C11_UpsertNodeIdempotent ==
    \A t \in Tasks :
        (HasReturned(t) /\ call[t].op = "upsert_node") =>
            LET id == call[t].id
                data == call[t].data
                pre == local[t].pre
            IN  /\ Has(coll, id)
                /\ \A k \in DOMAIN data : coll[id].attrs[k] = data[k]
                /\ coll[id].edges = IF Has(pre, id) THEN pre[id].edges ELSE <<>>
                /\ OthersKept(pre, coll, {id})
                /\ UpsertNodeOp(coll, id, data) = coll

\* upsert_node has returned for a node that had an edge and no attributes.
C11_Witness ==
    /\ HasReturned(SeqTask)
    /\ call[SeqTask].op = "upsert_node"
    /\ call[SeqTask].data # Empty
    /\ Has(local[SeqTask].pre, call[SeqTask].id)
    /\ local[SeqTask].pre[call[SeqTask].id].attrs = Empty
    /\ Len(local[SeqTask].pre[call[SeqTask].id].edges) = 1

\* The edges array without the edges whose target is in tgts.
Without(es, tgts) == SelectSeq(es, LAMBDA e : e.target \notin tgts)

\* C12: when delete_node(id) has returned, with no other writer, id has no
\* document, no edge list holds an edge to id, and every other document is
\* there with its attributes and its edges to other targets, in order.
C12_DeleteNodeCascade ==
    \A t \in Tasks :
        (HasReturned(t) /\ call[t].op = "delete_node") =>
            LET id == call[t].id
                pre == local[t].pre
            IN  /\ ~Has(coll, id)
                /\ \A x \in DOMAIN coll : id \notin Targets(coll[x].edges)
                /\ DOMAIN coll = DOMAIN pre \ {id}
                /\ \A x \in DOMAIN coll :
                     /\ coll[x].attrs = pre[x].attrs
                     /\ coll[x].edges = Without(pre[x].edges, {id})

\* delete_node has returned for a stored node that another node pointed to,
\* and that other node keeps an edge.
C12_Witness ==
    /\ HasReturned(SeqTask)
    /\ call[SeqTask].op = "delete_node"
    /\ Has(local[SeqTask].pre, call[SeqTask].id)
    /\ \E x \in DOMAIN coll :
         /\ call[SeqTask].id \in Targets(local[SeqTask].pre[x].edges)
         /\ Len(coll[x].edges) = 1

\* The response-cache collection.
Cache == docs["llm_response_cache"]

\* C13: in the response cache a record, once written, keeps its value as long
\* as it exists: the update that creates it stores the value of an upsert in
\* progress, and no later update, of the same call or of another, changes it.
C13_FirstWriterWins ==
    [][\A k \in DOMAIN Cache' :
          IF k \in DOMAIN Cache
          THEN Cache'[k] = Cache[k]
          ELSE \E t \in Tasks :
                  /\ call[t].op = "upsert"
                  /\ \E p \in UpsertItems(call[t].store, call[t].data) \ local[t].applied :
                        /\ p \in local'[t].applied
                        /\ p[1] = k
                        /\ Cache'[k] = WithId(p[2], k)]_vars

\* Two upserts of one (mode, key) with different values, issued together, have
\* both returned, and the record holds one of the two values.
C13_Witness ==
    \E t, u \in RaceTasks :
        /\ t # u
        /\ HasReturned(t) /\ HasReturned(u)
        /\ call[t].op = "upsert" /\ call[u].op = "upsert"
        /\ \E p \in UpsertItems("cache", call[t].data), q \in UpsertItems("cache", call[u].data) :
              /\ p[1] = q[1]
              /\ p[2] # q[2]
              /\ Cache[p[1]] = WithId(p[2], p[1])

\* C14 as stated: when an upsert on an ordinary key-value namespace or on the
\* doc-status store has returned, the document of every id in the argument has
\* exactly the fields of its record, plus "_id".
C14_UpsertReplaces ==
    \A t \in Tasks :
        (HasReturned(t) /\ call[t].op = "upsert" /\ ~IsCache(call[t].store)) =>
            \A k \in DOMAIN call[t].data :
                docs[CollectionName(call[t].store)][k] = WithId(call[t].data[k], k)

\* C15: when filter_keys(keys) returns, its result is the requested keys that
\* have no document in the collection, and the collections are unchanged.
C15_FilterKeysMissing ==
    [][\A t \in Tasks :
          (pc[t] = "fk_find" /\ pc'[t] = "done" /\ local'[t].result.kind = "returned") =>
              /\ local'[t].result.value
                    = call[t].keys \ DOMAIN docs[CollectionName(call[t].store)]
              /\ docs' = docs]_vars

\* With only a stored, filter_keys({a, b, c}) has returned {b, c}.
C15_Witness ==
    /\ HasReturned(SeqTask)
    /\ call[SeqTask].op = "filter_keys"
    /\ call[SeqTask].keys = {"a", "b", "c"}
    /\ DOMAIN docs[CollectionName(call[SeqTask].store)] = {"a"}
    /\ local[SeqTask].result.value = {"b", "c"}

\* C16: when query(text, top_k) has returned, it holds at most top_k results,
\* each is a stored document with its score against the query, none has a
\* score below the threshold and none carries the field "vector".
C16_QueryThreshold ==
    \A t \in Tasks :
        (HasReturned(t) /\ call[t].op = "query") =>
            LET results == local[t].result.value
            IN  /\ Cardinality(results) <= call[t].top_k
                /\ \A d \in results :
                     /\ Has(vdb, d.id)
                     /\ d.distance = Score(Embed(call[t].text), vdb[d.id].vector)
                     /\ d.distance >= call[t].threshold
                     /\ "vector" \notin DOMAIN d

\* A query with top_k = 2 has returned one result although two documents are
\* stored and indexed: the other one is below the threshold.
C16_Witness ==
    /\ HasReturned(SeqTask)
    /\ call[SeqTask].op = "query"
    /\ call[SeqTask].top_k = 2
    /\ call[SeqTask].threshold = 80
    /\ storeData["vector"] \in searchIndexes
    /\ Cardinality(DOMAIN vdb) = 2
    /\ Cardinality(local[SeqTask].result.value) = 1
    /\ \E id \in DOMAIN vdb : Score(Embed(call[SeqTask].text), vdb[id].vector) < 80

\* C17: in a vector upsert the contents are split into consecutive batches of
\* at least one and at most max_batch_size contents, and for every order in
\* which the embedding calls complete the i-th document written and returned
\* has the id of the i-th record and the embedding of the i-th content.
C17_EmbeddingsInInputOrder ==
    \A t \in Tasks :
        call[t].op = "vec_upsert" =>
            LET data == call[t].data
                contents == Contents(data)
                batches == Batches(contents, call[t].size)
                list_data == ListData(data, call[t].now, call[t].size, local[t].order)
            IN  /\ \A b \in DOMAIN batches : Len(batches[b]) \in 1..call[t].size
                /\ Concatenate(batches) = contents
                /\ pc[t] = "vu_updates" =>
                     \A i \in 1..Len(data) :
                        /\ list_data[i]["_id"] = data[i][1]
                        /\ list_data[i].vector = Embed(contents[i])
                /\ HasReturned(t) /\ Len(data) > 0 =>
                     \A i \in 1..Len(data) :
                        /\ local[t].result.value[i]["_id"] = data[i][1]
                        /\ local[t].result.value[i].vector = Embed(contents[i])
                        /\ vdb[data[i][1]].vector = Embed(contents[i])

\* Three records in two batches; the second batch was embedded first.
C17_Witness ==
    /\ HasReturned(SeqTask)
    /\ call[SeqTask].op = "vec_upsert"
    /\ Len(call[SeqTask].data) = 3
    /\ call[SeqTask].size = 2
    /\ local[SeqTask].order = <<2, 1>>
    /\ call[SeqTask].data[1][2] # call[SeqTask].data[3][2]

\* --------------------------------------------------------------- claim C18
\* The operations of a call that is a drop, and the application that a drop
\* emptied.
DropOps == {"graph_drop", "drop", "vec_drop"}

Dropped(t) == HasReturned(t) /\ call[t].op \in DropOps

\* What the store of the drop holds now.
DropStore(t) ==
    CASE call[t].op = "graph_drop" -> coll
      [] call[t].op = "drop" -> docs[CollectionName(call[t].store)]
      [] OTHER -> vdb

\* Every read of the store of the drop finds nothing.
ReadsNothing(t) ==
    CASE call[t].op = "graph_drop" ->
            /\ get_all_labels(coll) = <<>>
            /\ get_knowledge_graph(coll, "*", MaxDepth) = {EmptyGraph}
      [] call[t].op = "drop" ->
            LET c == docs[CollectionName(call[t].store)]
            IN  /\ \A id \in FilterIds \cup {CacheKey(mode, k) : mode \in Modes, k \in CacheKeys} :
                      get_by_id(c, id) = None
                /\ \A keys \in SUBSET FilterIds : filter_keys(c, keys) = keys
      [] OTHER ->
            /\ \A id \in VecIds \cup EntityVecIds : vec_get_by_id(vdb, id) = None
            /\ \A indexed \in BOOLEAN, top_k \in 1..MaxTopK, q \in Texts, th \in Thresholds :
                  \A S \in Candidates(vdb, indexed, top_k) : QueryResult(vdb, S, q, th) = {}

\* C18: a drop that no other call overlaps returns a status result; with the
\* status "success" every read of its store finds nothing (the graph has no
\* labels and get_knowledge_graph("*") has no nodes or edges; a key-value,
\* doc-status or vector store has no record for any id or query); with the
\* status "error" the delete did not happen and the store is as it was.
C18_DropClears ==
    Dropped(SeqTask) =>
        LET r == local[SeqTask].result.value
        IN  /\ r.status \in {"success", "error"}
            /\ r.status = "success" =>
                  /\ ReadsNothing(SeqTask)
                  /\ r.deleted_count = Cardinality(DOMAIN local[SeqTask].pre)
            /\ r.status = "error" => DropStore(SeqTask) = local[SeqTask].pre

\* A graph with a node and an edge was dropped.
C18_Witness ==
    /\ Dropped(SeqTask)
    /\ call[SeqTask].op = "graph_drop"
    /\ local[SeqTask].result.value.status = "success"
    /\ \E id \in DOMAIN local[SeqTask].pre : local[SeqTask].pre[id].edges # <<>>

\* --------------------------------------------------------------- claim C19
DeleteOps ==
    {"delete", "vec_delete", "delete_entity", "delete_node", "remove_nodes", "remove_edges"}

\* Nothing the delete call names is in collection c: no document with one of
\* its ids, no edge for one of its pairs.
TargetsAbsent(cl, c) ==
    CASE cl.op \in {"delete", "vec_delete", "remove_nodes"} -> cl.ids \cap DOMAIN c = {}
      [] cl.op = "delete_entity" -> ~Has(c, EntityId(cl.name))
      [] cl.op = "delete_node" -> ~Has(c, cl.id)
      [] OTHER -> \A p \in cl.pairs : ~(Has(c, p[1]) /\ p[2] \in Targets(c[p[1]].edges))

\* What the store of the delete call holds now.
DeleteStore(t) ==
    CASE call[t].op = "delete" -> docs[CollectionName(call[t].store)]
      [] call[t].op \in {"vec_delete", "delete_entity"} -> vdb
      [] OTHER -> coll

\* C19 (as stated, for the state): a delete that returned and named only ids,
\* nodes or edges that were not present left the stored state as it was.
C19_AbsentDeleteNoOp ==
    (/\ HasReturned(SeqTask)
     /\ call[SeqTask].op \in DeleteOps
     /\ TargetsAbsent(call[SeqTask], local[SeqTask].pre))
        => DeleteStore(SeqTask) = local[SeqTask].pre

\* --------------------------------------------------------------- claim C20
\* The graph and vector operations that write, delete or drop.
MutationOps ==
    {"upsert_node", "upsert_edge", "delete_node", "remove_nodes", "remove_edges",
     "graph_drop", "vec_upsert", "vec_delete", "delete_entity",
     "delete_entity_relation", "vec_drop"}

\* C20 (as stated): a graph or vector write, delete or drop that has ended has
\* returned a value; no database error has left it as an exception.
C20_ErrorsCaught ==
    \A t \in Tasks :
        (pc[t] = "done" /\ call[t].op \in MutationOps) => local[t].result.kind = "returned"

\* --------------------------------------------------------------- claim C21
\* C21 (as stated): every call of get_or_create_collection that goes on to
\* create_collection returns a handle, also when another caller has created
\* the collection since the name was listed: the collection field of the
\* store is assigned and the collection exists.
C21_EnsureAlwaysReturns ==
    [][\A t \in Tasks :
          (pc[t] = "goc_create" /\ pc'[t] # "goc_create")
              => /\ storeData'[call[t].store] = CollectionName(call[t].store)
                 /\ CollectionName(call[t].store) \in collNames']_vars

\* --------------------------------------------------------------- claim C22
\* C22: get_knowledge_graph with a label other than "*" that had no node
\* document when it was called ends by returning the empty graph (no nodes,
\* no edges), also when the database raises, and the collection is as it was.
C22_MissingLabelEmpty ==
    \A t \in Tasks :
        (/\ pc[t] = "done"
         /\ call[t].op = "get_knowledge_graph"
         /\ call[t].label # "*"
         /\ ~Has(local[t].pre, call[t].label))
            => /\ local[t].result = Returns(EmptyGraph)
               /\ coll = local[t].pre

\* The label had no document while another node held an edge to it.
C22_Witness ==
    /\ HasReturned(SeqTask)
    /\ call[SeqTask].op = "get_knowledge_graph"
    /\ call[SeqTask].label = "A"
    /\ ~Has(coll, "A")
    /\ Has(coll, "B")
    /\ "A" \in Targets(coll["B"].edges)

\* --------------------------------------------------------------- claim C23
\* The positions in an edges array of the edges to tgt.
PositionsTo(es, tgt) == {i \in 1..Len(es) : es[i].target = tgt}

\* The edges array of src, empty when src has no document.
EdgesOf(c, src) == IF Has(c, src) THEN c[src].edges ELSE <<>>

\* C23: edge_degree(src, tgt) returns the number of edges in src's edge list
\* whose target is tgt (0 when src has no document); get_edge(src, tgt)
\* returns the first such edge in list order, and None exactly when there is
\* none.
C23_EdgeDegreeAndGetEdge ==
    \A t \in Tasks :
        HasReturned(t) =>
            LET es == EdgesOf(coll, call[t].src)
                at == PositionsTo(es, call[t].tgt)
                v == local[t].result.value
            IN  /\ call[t].op = "edge_degree" => v = Cardinality(at)
                /\ call[t].op = "get_edge" =>
                      IF at = {} THEN v = None
                      ELSE \E i \in at : /\ v = es[i]
                                          /\ \A j \in at : i <= j

\* edge_degree on a pair with two parallel edges that differ in relation.
C23_Witness ==
    /\ HasReturned(SeqTask)
    /\ call[SeqTask].op = "edge_degree"
    /\ local[SeqTask].result.value = 2
    /\ LET es == coll[call[SeqTask].src].edges
       IN  Len(es) = 2 /\ es[1] # es[2]

\* --------------------------------------------------------------- claim C24
\* A drop_cache_by_modes call has ended (it never raises).
ModesDropped(t) == pc[t] = "done" /\ call[t].op = "drop_cache_by_modes"

\* C24 (as stated, for the success case): after drop_cache_by_modes(modes)
\* has returned True every record written under a mode that is not among
\* modes is in the cache as it was.
C24_OtherModesKept ==
    (ModesDropped(SeqTask) /\ local[SeqTask].result.value = TRUE) =>
        \A mode \in AllModes \ call[SeqTask].modes, k \in CacheKeys :
            LET id == CacheKey(mode, k)
            IN  Has(local[SeqTask].pre, id) => /\ Has(Cache, id)
                                               /\ Cache[id] = local[SeqTask].pre[id]

\* --------------------------------------------------------------- claim C25
\* The calls that issue one write per item under asyncio.gather.
GatherOps == {"upsert", "vec_upsert", "remove_edges"}

\* The collection the call of t writes to, out of the key-value collections
\* d, the vector collection v and the graph collection g.
GatherStoreOf(t, d, v, g) ==
    CASE call[t].op = "upsert" -> d[CollectionName(call[t].store)]
      [] call[t].op = "vec_upsert" -> v
      [] OTHER -> g

GatherStore(t) == GatherStoreOf(t, docs, vdb, coll)
GatherStoreNext(t) == GatherStoreOf(t, docs', vdb', coll')

\* The vector upsert of t has its embeddings and has issued its updates.
Embedded(t) ==
    /\ Len(call[t].data) > 0
    /\ Len(local[t].order) = NumBatches(Len(call[t].data), call[t].size)

\* The items whose writes the call of t has issued.
GatherItems(t) ==
    CASE call[t].op = "upsert" -> UpsertItems(call[t].store, call[t].data)
      [] call[t].op = "vec_upsert" -> IF Embedded(t) THEN 1..Len(call[t].data) ELSE {}
      [] OTHER -> call[t].pairs

\* The write of one item of the call of t, on collection c.
ItemWrite(t, c, item) ==
    CASE call[t].op = "upsert" -> UpdateOne(call[t].store, c, item)
      [] call[t].op = "vec_upsert" ->
            LET d == ListData(call[t].data, call[t].now, call[t].size, local[t].order)[item]
            IN  SetFields(c, d["_id"], d)
      [] OTHER -> PullEdges(c, item[1], {item[2]})

\* The write of the item is in place in c: applying it again changes nothing.
Written(t, c, item) == ItemWrite(t, c, item) = c

\* C25: in every step of an upsert (KV, doc-status, cache, vector) or a
\* remove_edges call, the collection changes only by the write of one further
\* item of the call, whatever happened to the other items; the step in which
\* a write fails ends the call with the exception and leaves the collection,
\* with the writes committed so far, as it is; a call that returns has every
\* item written.
C25_IndependentWrites ==
    [][\A t \in Tasks :
          call[t].op \in GatherOps =>
              /\ GatherStoreNext(t) # GatherStore(t) =>
                    \E item \in GatherItems(t) \ local[t].applied :
                        /\ GatherStoreNext(t) = ItemWrite(t, GatherStore(t), item)
                        /\ local'[t].applied = local[t].applied \cup {item}
              /\ (local[t].result.kind # "raised" /\ local'[t].result.kind = "raised") =>
                    /\ GatherStoreNext(t) = GatherStore(t)
                    /\ pc'[t] = "done"
              /\ (local[t].result.kind = "none" /\ local'[t].result.kind = "returned") =>
                    \A item \in GatherItems(t) : Written(t, GatherStoreNext(t), item)]_vars

\* An upsert of two records has failed after writing one of them, and a
\* filter_keys call that ran meanwhile has seen exactly the other one missing.
C25_Witness ==
    /\ call[SeqTask].op = "upsert"
    /\ HasRaised(SeqTask)
    /\ call[ReadTask].op = "filter_keys"
    /\ HasReturned(ReadTask)
    /\ local[SeqTask].pre = <<>>
    /\ DOMAIN call[SeqTask].data = KVIds
    /\ Cardinality(local[ReadTask].result.value) = 1
    /\ DOMAIN GatherStore(SeqTask) = KVIds \ local[ReadTask].result.value

\* --------------------------------------------------------------- claim C26
\* The positions inside `async with cls._lock` (lines 46-65, 69-74).
LockPoints == {"gc_body", "gc_unlock", "rc_body", "rc_unlock"}

\* C26: ref_count and the stored handle change only in a step of the task
\* that holds ClientManager._lock, which keeps holding it, and then by the
\* effect of one get_client or one release_client on their current values
\* (no increment or decrement is lost); the holder of the lock is inside
\* `async with` and has not suspended, so no task holds the lock while it
\* waits for a database call.
C26_LockedAndNoIO ==
    /\ [](lock # None => (pc[lock] \in LockPoints /\ running = lock))
    /\ [][(instDb' # instDb \/ refCount' # refCount) =>
            /\ lock # None
            /\ lock' = lock
            /\ pc[lock] \in {"gc_body", "rc_body"}
            /\ IF pc[lock] = "gc_body"
               THEN /\ refCount' = (IF instDb = NoHandle THEN 0 ELSE refCount) + 1
                    /\ instDb' = IF instDb = NoHandle THEN nextHandle' ELSE instDb
               ELSE /\ refCount' = refCount - 1
                    /\ instDb' = IF refCount' = 0 THEN NoHandle ELSE instDb]_vars

\* A finalize releases the handle, holding the lock, while an initialize of
\* another store waits for create_collection.
C26_Witness ==
    /\ lock = "t1"
    /\ pc["t1"] = "rc_unlock"
    /\ pc["t2"] = "goc_create"
    /\ refCount = 1

\* --------------------------------------------------------------- claim C27
\* C27: a graph returned by get_knowledge_graph has no two nodes with the
\* same id and no two edges with the same id "{source}-{target}"; each of its
\* edges is built from the first edge to that target in the edges array of
\* its source, so parallel edges that differ in relation collapse to the
\* first one, also when the stored graph has cycles.
C27_Deduplicated ==
    \A t \in Tasks :
        (HasReturned(t) /\ call[t].op = "get_knowledge_graph") =>
            LET g == local[t].result.value
            IN  /\ \A n1 \in g.nodes, n2 \in g.nodes : n1.id = n2.id => n1 = n2
                /\ \A e1 \in g.edges, e2 \in g.edges : e1.id = e2.id => e1 = e2
                /\ \A e \in g.edges :
                      /\ e.id = EdgeId(e.source, e.target)
                      /\ LET es == coll[e.source].edges
                         IN  \E i \in 1..Len(es) :
                                /\ es[i].target = e.target
                                /\ e = KGEdge(e.source, es[i])
                                /\ \A j \in 1..(i - 1) : es[j].target # e.target

\* A holds two parallel edges to B with different relations, B an edge back
\* to A; the subgraph from A has the two nodes and two edges, the one from A
\* to B with the relation of the first.
C27_Witness ==
    /\ HasReturned(SeqTask)
    /\ call[SeqTask].op = "get_knowledge_graph"
    /\ call[SeqTask].label = "A"
    /\ DOMAIN coll = {"A", "B"}
    /\ Len(coll["A"].edges) = 2
    /\ coll["A"].edges[1] = NewEdge("B", [relation |-> "r1"])
    /\ coll["A"].edges[2].target = "B"
    /\ coll["A"].edges[2].relation = "r2"
    /\ "A" \in Targets(coll["B"].edges)
    /\ LET g == local[SeqTask].result.value
       IN  /\ Cardinality(g.nodes) = 2
           /\ {e.type : e \in {x \in g.edges : x.source = "A"}} = {"r1"}

\* --------------------------------------------------------------- claim C28
\* What delete_node(id) leaves of collection c when both its writes are
\* applied (lines 675, 678).
DeleteNodeOp(c, id) == DeleteDocs(PullEdgesEverywhere(c, {id}), {id})

\* delete_node on each id of the sequence, one after another.
RECURSIVE DeleteEach(_, _, _)
DeleteEach(c, order, i) ==
    IF i > Len(order) THEN c
    ELSE DeleteEach(DeleteNodeOp(c, order[i]), order, i + 1)

\* C28: remove_nodes(ids) that has returned leaves the graph that delete_node
\* on each id, one after another in any order, leaves: the documents of ids
\* removed and every edge to one of them stripped.  remove_edges(pairs) that
\* has returned leaves every document in place with its attributes, and of
\* each edges array exactly the edges whose (source, target) is not among the
\* pairs, in their order.
C28_BulkForms ==
    HasReturned(SeqTask) =>
        LET pre == local[SeqTask].pre
        IN  /\ call[SeqTask].op = "remove_nodes" =>
                  /\ \A o \in Orders(call[SeqTask].ids) : coll = DeleteEach(pre, o, 1)
                  /\ DOMAIN coll = DOMAIN pre \ call[SeqTask].ids
                  /\ \A x \in DOMAIN coll :
                        Targets(coll[x].edges) \cap call[SeqTask].ids = {}
            /\ call[SeqTask].op = "remove_edges" =>
                  /\ DOMAIN coll = DOMAIN pre
                  /\ \A x \in DOMAIN pre :
                        /\ coll[x].attrs = pre[x].attrs
                        /\ coll[x].edges =
                              SelectSeq(pre[x].edges,
                                        LAMBDA e : <<x, e.target>> \notin call[SeqTask].pairs)

\* Two nodes were removed and a node that stays lost its edge to one of them.
C28_Witness ==
    /\ HasReturned(SeqTask)
    /\ call[SeqTask].op = "remove_nodes"
    /\ Cardinality(call[SeqTask].ids \cap DOMAIN local[SeqTask].pre) = 2
    /\ \E x \in DOMAIN coll : Len(coll[x].edges) < Len(local[SeqTask].pre[x].edges)

\* --------------------------------------------------------------- claim C29
\* C29 (as stated): after a vector upsert has returned, the stored record of
\* each item is its id, the created_at of the call, its vector and the
\* declared meta fields of the input, and nothing else: the write replaces
\* whatever was stored for the id.
C29_StoredRecord ==
    (HasReturned(SeqTask) /\ call[SeqTask].op = "vec_upsert") =>
        \A i \in 1..Len(call[SeqTask].data) :
            LET id == call[SeqTask].data[i][1]
                rec == call[SeqTask].data[i][2]
            IN  /\ Has(vdb, id)
                /\ vdb[id] = ("_id" :> id) @@ ("created_at" :> call[SeqTask].now)
                                @@ ("vector" :> Embed(rec.content)) @@ Meta(rec)

\* --------------------------------------------------------------- claim C30
\* C30: in every reachable state of ClientManager ref_count is not negative
\* and the stored handle is None exactly when ref_count is 0, whatever
\* get_client and release_client calls (of None, the live handle or a stale
\* one, more releases than acquisitions included) have run or are running.
C30_CountMatchesHandle ==
    /\ refCount >= 0
    /\ (instDb = NoHandle <=> refCount = 0)

\* A stale handle has just been released after the handle opened later was
\* released for the last time.
C30_Witness ==
    \E t \in Tasks :
        /\ pc[t] = "rc_unlock"
        /\ call[t].op = "release_client"
        /\ local[t].h = 1
        /\ nextHandle = 2
        /\ instDb = NoHandle
        /\ refCount = 0

\* --------------------------------------------------------------- claim C31
\* C31: every document of the graph collection has an edge list; under any
\* interleaving of upsert_node, upsert_edge, delete_node, remove_nodes and
\* remove_edges a document appears only in an upsert_node update (the one
\* upsert_edge begins with included), with an empty edge list, and the $pull
\* and $push of upsert_edge never bring a document into being.
C31_OnlyUpsertNodeCreates ==
    /\ [](\A id \in DOMAIN coll :
            /\ DOMAIN coll[id] = {"edges", "attrs"}
            /\ DOMAIN coll[id].edges = 1..Len(coll[id].edges))
    /\ [][/\ \A id \in DOMAIN coll' \ DOMAIN coll :
               /\ coll'[id].edges = <<>>
               /\ \E t \in Tasks :
                    \/ pc[t] = "un_update" /\ pc'[t] = "done" /\ call[t].id = id
                    \/ pc[t] = "ue_node" /\ pc'[t] = "ue_pull" /\ call[t].src = id
          /\ \A t \in Tasks :
               (pc[t] \in {"ue_pull", "ue_push"} /\ pc'[t] # pc[t]) =>
                   DOMAIN coll' = DOMAIN coll]_vars

\* An upsert_edge has returned and its source, which it created, has no
\* document: a delete_node of the source ran between its steps.
C31_Witness ==
    \E t \in RaceTasks, u \in RaceTasks :
        /\ HasReturned(t)
        /\ call[t].op = "upsert_edge"
        /\ ~Has(local[t].pre, call[t].src)
        /\ ~Has(coll, call[t].src)
        /\ HasReturned(u)
        /\ call[u].op = "delete_node"
        /\ call[u].id = call[t].src
        /\ Has(local[u].pre, call[t].src)

\* --------------------------------------------------------------- claim C32
\* C32 (as stated): the graph a get_knowledge_graph call returns is closed:
\* for every label and max_depth each returned edge has its source and its
\* target among the returned nodes.
C32_ClosedGraph ==
    \A t \in Tasks :
        (HasReturned(t) /\ call[t].op = "get_knowledge_graph") =>
            LET g == local[t].result.value
                ids == {n.id : n \in g.nodes}
            IN  \A e \in g.edges : e.source \in ids /\ e.target \in ids

\* --------------------------------------------------------------- claim C33
\* What an upsert_edge call leaves alone, at every point from its start:
\* every document other than the source's is as it was and none has appeared,
\* the source's attributes are as they were (none when the call created the
\* document), and the source's edges to targets other than tgt are the same,
\* in the same order.
EdgeFrame(t) ==
    LET pre == local[t].pre
        src == call[t].src
        tgt == call[t].tgt
    IN  /\ DOMAIN coll \ {src} = DOMAIN pre \ {src}
        /\ \A id \in DOMAIN pre \ {src} : coll[id] = pre[id]
        /\ Has(pre, src) => Has(coll, src) /\ coll[src].attrs = pre[src].attrs
        /\ (~Has(pre, src) /\ Has(coll, src)) => coll[src].attrs = Empty
        /\ OtherEdges(coll, src, tgt) = OtherEdges(pre, src, tgt)

InUpsertEdge(t) == pc[t] # "idle" /\ call[t].op = "upsert_edge"

\* C33 (as stated): upsert_edge(src, tgt, attrs) changes only src's edges to
\* tgt, leaving src's attributes, its other edges and their order and every
\* other document unchanged, and never creates a document for tgt.
C33_EdgeFrameNoTarget ==
    InUpsertEdge(SeqTask) =>
        /\ EdgeFrame(SeqTask)
        /\ ~Has(local[SeqTask].pre, call[SeqTask].tgt) => ~Has(coll, call[SeqTask].tgt)

\* C33 (amended): the same, where a document for tgt is never created unless
\* tgt is src itself: the source's document is created, with no attributes
\* and no other edges, when it is missing.
C33_EdgeFrame ==
    InUpsertEdge(SeqTask) =>
        /\ EdgeFrame(SeqTask)
        /\ (call[SeqTask].tgt # call[SeqTask].src /\ ~Has(local[SeqTask].pre, call[SeqTask].tgt))
               => ~Has(coll, call[SeqTask].tgt)
        /\ HasReturned(SeqTask) => Has(coll, call[SeqTask].src)

\* A held two edges to itself and then one to B, which has no document; the
\* call replaced the edge to B and kept the other two in their order.
C33_Witness ==
    /\ HasReturned(SeqTask)
    /\ call[SeqTask].op = "upsert_edge"
    /\ call[SeqTask].src = "A"
    /\ call[SeqTask].tgt = "B"
    /\ Has(local[SeqTask].pre, "A")
    /\ ~Has(coll, "B")
    /\ LET before == local[SeqTask].pre["A"].edges
           after == coll["A"].edges
       IN  /\ Len(before) = 3
           /\ before[1].target = "A"
           /\ before[2].target = "A"
           /\ before[1] # before[2]
           /\ before[3].target = "B"
           /\ after = <<before[1], before[2], NewEdge("B", call[SeqTask].data)>>
           /\ after[3] # before[3]

\* --------------------------------------------------------------- claim C34
\* The (mode, key) pairs of a cache upsert argument.
CachePairs(data) == UNION {{<<mode, k>> : k \in DOMAIN data[mode]} : mode \in DOMAIN data}

\* C34 (as stated): in the response cache, an upsert that has returned has
\* stored the records of distinct (mode, key) pairs as distinct records, each
\* pair's record being the one first written for it (the one of this call
\* when none was stored before), and get_by_mode_and_id(mode, key) returns
\* {key: that record}, None when there is none; in any other namespace
\* get_by_mode_and_id returns None.
C34_CacheRoundTrip ==
    /\ (HasReturned(SeqTask) /\ call[SeqTask].op = "upsert" /\ IsCache(call[SeqTask].store)) =>
          LET data == call[SeqTask].data
              c == docs[CollectionName(call[SeqTask].store)]
              pre == local[SeqTask].pre
          IN  /\ \A p \in CachePairs(data), q \in CachePairs(data) :
                    p # q => CacheKey(p[1], p[2]) # CacheKey(q[1], q[2])
              /\ \A p \in CachePairs(data) :
                    LET key == CacheKey(p[1], p[2])
                    IN  /\ Has(c, key)
                        /\ c[key] = IF Has(pre, key) THEN pre[key]
                                    ELSE WithId(data[p[1]][p[2]], key)
    /\ (HasReturned(SeqTask) /\ call[SeqTask].op = "get_by_mode_and_id") =>
          LET c == docs[CollectionName(call[SeqTask].store)]
              key == CacheKey(call[SeqTask].mode, call[SeqTask].id)
              v == local[SeqTask].result.value
          IN  IF IsCache(call[SeqTask].store) /\ Has(c, key)
              THEN v = (call[SeqTask].id :> c[key])
              ELSE v = None

====
